---------------------------- MODULE Spec2Model ----------------------------
(***************************************************************************)
(* State-synchronisation and device-protocol core of the Dobot TCP/IP      *)
(* demo: DobotDemo (telemetry feed, motion dispatch, reply parsing),       *)
(* replay_trajectory.main (trajectory replay) and RobotiqEpick (gripper    *)
(* register protocol).                                                     *)
(*                                                                         *)
(* Texts (control-channel replies) are sequences of one-character strings. *)
(* A 64-bit telemetry word is a sequence of four 16-bit words, most        *)
(* significant first.                                                      *)
(***************************************************************************)
EXTENDS Integers, Sequences, FiniteSets, TLC

VARIABLES
    \* ---- DobotDemo (src/DobotDemo.py) ----
    startPc,            \* position of the thread running start()
    enableRecv,         \* the EnableRobot reply, while line 31 evaluates it
    feedStarted,        \* feed_thread.start() has run (line 40)
    feedPc,             \* position of the GetFeed thread
    feedInfo,           \* GetFeed's local feedInfo: None or a decoded frame
    globalLock,         \* holder of __globalLockValue
    feedData,           \* the shared item(): the published telemetry
    frameNo,            \* number of frames feedBackData() has returned
    fieldSrc,           \* history: the frame each feedData field was written from
    runPc,              \* position of the thread running RunPoint
    recvmovemess,       \* RunPoint's local: the MovJ reply
    currentCommandID,   \* RunPoint's local: the parsed command id
    printed,            \* the parse result RunPoint prints at line 77
    rdSrc,              \* history: frames the current poll read mode and id from
    held,               \* history: feedData satisfied the completion condition
                        \* at some instant of the current poll
    dashCalls,          \* commands sent on the control channel
    \* ---- replay_trajectory.main (src/replay_trajectory.py) ----
    BLEND_R_MM,         \* configured blend radius, in tenths of a millimetre
    CP_RATIO,           \* configured blend ratio, in tenths of a percent
    nPoses,             \* len(poses): the rows read from the CSV file
    rpPc,               \* position of main()
    rpIdx,              \* the loop variable idx
    rpParams,           \* the dict params
    rpReply,            \* the local reply: the last MovL reply
    rpCalls,            \* calls made on the dashboard client dash
    rpRet,              \* the value main() returned
    wt,                 \* the call of _wait_until_near_pose: arguments, locals,
                        \* the clock and the outcome
    \* ---- RobotiqEpick (src/ui_epick_control.py) ----
    ModbusIndex,        \* <<>> for None, <<i>> for session index i
    write_lock,         \* the thread holding write_lock, 0 when free
    gth,                \* per calling thread: the method it runs and where
    gripCalls,          \* number of method calls started
    wire,               \* the calls made on the dashboard client
    \* ---- RobotUI (src/ui_epick_control.py) ----
    connect,            \* global_state["connect"]
    client_dash,        \* 0 for None, else the number of the connection
    client_feed,        \* 0 for None, else the number of the connection
    epick,              \* whether self.epick holds a RobotiqEpick
    mainPc,             \* where the Tk main thread is in connect_port
    clicks,             \* Connect/Disconnect clicks so far
    uth,                \* the feed_back threads: pc, temp, data
    recvs,              \* recv calls made on the telemetry socket
    label,              \* the texts of the feedback labels
    latest_joints,      \* the cached joint angles
    latest_tcp,         \* the cached TCP pose
    text_err,           \* entries inserted into the error text box
    rec,                \* the recording: record_running, record_stop_event,
                        \* the csv writer, the record_loop threads, and the
                        \* (thread, file) pairs of the rows written
    \* ---- the register encoders (src/ui_epick_control.py) ----
    encIn,              \* what was last given to an encoder
    encOut,             \* what it returned
    encCalls            \* encoder calls so far

startVars == <<startPc, enableRecv, feedStarted>>
feedVars == <<feedPc, feedInfo, globalLock, frameNo>>
pubVars == <<feedData, fieldSrc>>
runVars == <<runPc, recvmovemess, currentCommandID, printed>>
pollVars == <<rdSrc, held>>
demoVars == <<startVars, feedVars, pubVars, runVars, pollVars, dashCalls>>

replayVars == <<BLEND_R_MM, CP_RATIO, nPoses, rpPc, rpIdx, rpParams, rpReply,
                rpCalls, rpRet>>

gripVars == <<ModbusIndex, write_lock, gth, gripCalls, wire>>

uiConnVars == <<connect, client_dash, client_feed, epick, mainPc, clicks>>

\* what feed_back publishes
uiPub == <<label, latest_joints, latest_tcp, text_err>>

uiVars == <<uiConnVars, uth, recvs, uiPub>>

encVars == <<encIn, encOut, encCalls>>

waitVars == <<wt>>

recVars == <<rec>>

vars == <<demoVars, replayVars, gripVars, uiVars, encVars, waitVars, recVars>>

\* the variables no method of DobotDemo touches
notDemoVars == <<replayVars, gripVars, uiVars, encVars, waitVars, recVars>>
\* the variables replay_trajectory does not touch
notReplayVars == <<demoVars, gripVars, uiVars, encVars, waitVars, recVars>>
\* the variables RobotiqEpick does not touch
notGripVars == <<demoVars, replayVars, uiVars, encVars, waitVars, recVars>>
\* the variables connect_port, feed_back and the gripper buttons do not touch
notUiVars == <<demoVars, replayVars, encVars, waitVars, recVars>>
\* the variables _wait_until_near_pose does not touch
notWaitVars == <<demoVars, replayVars, gripVars, uiVars, encVars, recVars>>
\* the variables the recording does not touch, RobotUI's own apart
notRecVars == <<demoVars, replayVars, gripVars, encVars, waitVars>>
\* the variables the encoders do not touch
notEncVars == <<demoVars, replayVars, gripVars, uiVars, waitVars, recVars>>

None == "None"
\* feedBackData() returned no frame
NoFrame == [none |-> TRUE]
\* a text variable that holds no reply
NoText == <<>>
\* a local integer not assigned yet
Unassigned == 0
\* a field the current poll has not read
NotRead == 0 - 1

-----------------------------------------------------------------------------
(* Bounds *)

\* longest generated reply text
MaxReplyLen == 3
\* longest generated text before and after the "Not Tcp" marker
MaxAffixLen == 1
\* telemetry frames delivered in one behaviour
MaxFrames == 3
\* longest generated MovL reply of a replay
MaxReplayReplyLen == 2
\* most pose rows in the replayed CSV file
MaxPoses == 4
\* clock ticks after which the clock of a pose wait is no longer told apart
MaxWaitTicks == 2
\* RobotiqEpick method calls started in one behaviour
MaxGripCalls == 2
\* encoder calls in one behaviour
MaxEncodes == 2
\* Connect/Disconnect clicks in one behaviour
MaxClicks == 2
\* recv calls on the telemetry socket in one behaviour
MaxRecvs == 2
\* recordings started in one behaviour
MaxRecords == 2

-----------------------------------------------------------------------------
(* Texts and Python's re.findall(r'-?\d+', text) *)

Digits == {"0", "1", "2", "3", "4", "5", "6", "7", "8", "9"}

IsDigit(c) == c \in Digits

DigitVal(c) ==
    CASE c = "0" -> 0 [] c = "1" -> 1 [] c = "2" -> 2 [] c = "3" -> 3
      [] c = "4" -> 4 [] c = "5" -> 5 [] c = "6" -> 6 [] c = "7" -> 7
      [] c = "8" -> 8 [] c = "9" -> 9

\* a match of \d+ : the pattern without its optional sign
MatchesAt_Unsigned(s, i) == IsDigit(s[i])

\* s[i..] starts with a match of -?\d+ : the regex engine tries the optional
\* sign first and falls back to no sign
MatchesAt(s, i) ==
    \/ IsDigit(s[i])
    \/ s[i] = "-" /\ i + 1 <= Len(s) /\ IsDigit(s[i + 1])

\* \d+ is greedy: the index just after the run of digits that starts at i
RECURSIVE DigitsEnd(_, _)
DigitsEnd(s, i) ==
    IF i <= Len(s) /\ IsDigit(s[i]) THEN DigitsEnd(s, i + 1) ELSE i

\* re.findall: the non-overlapping matches, scanning from the left
RECURSIVE FindAllFrom(_, _)
FindAllFrom(s, i) ==
    IF i > Len(s) THEN <<>>
    ELSE IF MatchesAt(s, i)
         THEN LET e == DigitsEnd(s, IF s[i] = "-" THEN i + 1 ELSE i)
              IN  <<SubSeq(s, i, e - 1)>> \o FindAllFrom(s, e)
         ELSE FindAllFrom(s, i + 1)

\* int() of a string of decimal digits
RECURSIVE NatOf(_)
NatOf(d) ==
    IF d = <<>> THEN 0
    ELSE 10 * NatOf(SubSeq(d, 1, Len(d) - 1)) + DigitVal(d[Len(d)])

\* int(num) of one match of -?\d+
IntOf(tok) == IF tok[1] = "-" THEN 0 - NatOf(Tail(tok)) ELSE NatOf(tok)

\* Python's  m in s  on strings
Contains(s, m) ==
    \E i \in 1..(Len(s) - Len(m) + 1) : SubSeq(s, i, i + Len(m) - 1) = m

NotTcp == <<"N", "o", "t", " ", "T", "c", "p">>

\* DobotDemo.parseResultId without its first test
parseResultId_NoMarkerTest(valueRecv) ==
    LET toks == FindAllFrom(valueRecv, 1)
        nums == [k \in 1..Len(toks) |-> IntOf(toks[k])]
    IN  IF nums = <<>> THEN <<2>> ELSE nums

\* DobotDemo.parseResultId falling back to [0] when nothing is found
parseResultId_FallbackZero(valueRecv) ==
    IF Contains(valueRecv, NotTcp) THEN <<1>>
    ELSE LET toks == FindAllFrom(valueRecv, 1)
             nums == [k \in 1..Len(toks) |-> IntOf(toks[k])]
         IN  IF nums = <<>> THEN <<0>> ELSE nums

\* DobotDemo.parseResultId
parseResultId(valueRecv) ==
    IF Contains(valueRecv, NotTcp) THEN <<1>>
    ELSE LET toks == FindAllFrom(valueRecv, 1)
             nums == [k \in 1..Len(toks) |-> IntOf(toks[k])]
         IN  IF nums = <<>> THEN <<2>> ELSE nums

-----------------------------------------------------------------------------
(* Reply texts *)

T_0_42 == <<"0", ",", "4", "2">>
T_0_17 == <<"0", ",", "1", "7">>
T_m1_42 == <<"-", "1", ",", "4", "2">>
T_0 == <<"0">>
T_0_m1 == <<"0", ",", "-", "1">>
T_NotTcpModeError ==
    NotTcp \o <<",", " ", "m", "o", "d", "e", " ", "e", "r", "r", "o", "r">>
T_Garbage == <<"o", "k", "-", ";">>

ReplyAlphabet == {"0", "4", "-", ",", "x"}

RECURSIVE TextsOfLen(_)
TextsOfLen(n) ==
    IF n = 0 THEN {<<>>}
    ELSE {Append(t, c) : t \in TextsOfLen(n - 1), c \in ReplyAlphabet}

TextsUpTo(n) == UNION {TextsOfLen(k) : k \in 0..n}

\* texts around the wrong-control-mode marker, digits included
MarkerReplies ==
    {pre \o NotTcp \o suf : pre \in TextsUpTo(MaxAffixLen),
                            suf \in TextsUpTo(MaxAffixLen)}
      \cup {T_NotTcpModeError}

\* the replies the reply-handling code is checked on
Replies ==
    TextsUpTo(MaxReplyLen) \cup MarkerReplies
      \cup {T_0_42, T_0_17, T_m1_42, T_Garbage, <<"1">>, <<"2">>}

\* the MovL replies of a replay
ReplayReplies ==
    TextsUpTo(MaxReplayReplyLen) \cup {T_0_42, T_m1_42, T_NotTcpModeError}

\* the replies the controller gives in the concurrent model
DemoReplies == {T_0_42, T_m1_42, T_NotTcpModeError, T_0, T_0_m1}

-----------------------------------------------------------------------------
(* Telemetry frames *)

\* 0x0123456789ABCDEF as four 16-bit words
Magic == <<291, 17767, 35243, 52719>>
\* the same bytes in the opposite byte order
MagicSwapped == <<61389, 43913, 26437, 8961>>
\* 0x123456789ABCDEF0: the magic's digits, one place to the left
MagicShifted == <<4660, 22136, 39612, 57072>>

Nibbles(w) == <<w \div 4096, (w \div 256) % 16, (w \div 16) % 16, w % 16>>

RECURSIVE StripZeros(_)
StripZeros(d) ==
    IF Len(d) > 1 /\ d[1] = 0 THEN StripZeros(Tail(d)) ELSE d

\* the digits Python's hex() prints after "0x" for a 64-bit unsigned value
hex(v) ==
    StripZeros(Nibbles(v[1]) \o Nibbles(v[2]) \o Nibbles(v[3]) \o Nibbles(v[4]))

\* the digits of the literal '0x123456789abcdef'
MagicHex == <<1, 2, 3, 4, 5, 6, 7, 8, 9, 10, 11, 12, 13, 14, 15>>

\* a frame check that accepts every frame
TestValueOk_Any(frame) == TRUE

\* GetFeed line 59, feed_back line 976: hex(TestValue) == '0x123456789abcdef'
TestValueOk(frame) == hex(frame.TestValue) = MagicHex

ROBOT_MODE_ENABLE == 5
ROBOT_MODE_RUNNING == 7

DemoFrame(tv, mode, id) ==
    [TestValue |-> tv, len |-> 1440, RobotMode |-> mode,
     DigitalInputs |-> id - 41, DigitalOutputs |-> IF mode = 5 THEN 2 ELSE 0,
     CurrentCommandId |-> id]

\* what feedBackData() returns to GetFeed
DemoFrames ==
    {DemoFrame(Magic, m, i) : m \in {ROBOT_MODE_ENABLE, ROBOT_MODE_RUNNING},
                              i \in {41, 42}}
      \cup {DemoFrame(MagicSwapped, ROBOT_MODE_ENABLE, 42),
            DemoFrame(MagicShifted, ROBOT_MODE_ENABLE, 41)}

\* DobotDemo.__init__: item()
InitFeedData ==
    [MessageSize |-> -1, robotMode |-> -1, DigitalInputs |-> -1,
     DigitalOutputs |-> -1, robotCurrentCommandID |-> -1]

\* RunPoint line 84, evaluated on one state of feedData
Completed(fd, id) ==
    fd.robotMode = ROBOT_MODE_ENABLE /\ fd.robotCurrentCommandID = id

-----------------------------------------------------------------------------
(* DobotDemo.start *)

\* lines 29-31: the clients are created and EnableRobot is sent
Start_EnableRobot(r) ==
    /\ startPc = "init"
    /\ startPc' = "enable_sent"
    /\ enableRecv' = r
    /\ dashCalls' = Append(dashCalls, "EnableRobot")
    /\ UNCHANGED <<feedStarted, feedVars, pubVars, runVars, pollVars>>
    /\ UNCHANGED notDemoVars

\* lines 31-40 with the comparison == 1 in place of != 0: only the
\* wrong-control-mode outcome makes start() return
Start_Check_OnlyWrongMode ==
    /\ startPc = "enable_sent"
    /\ IF parseResultId(enableRecv)[1] = 1
       THEN startPc' = "returned" /\ UNCHANGED feedStarted
       ELSE startPc' = "status_loop" /\ feedStarted' = TRUE
    /\ enableRecv' = NoText
    /\ UNCHANGED <<feedVars, pubVars, runVars, pollVars, dashCalls>>
    /\ UNCHANGED notDemoVars

\* lines 31-40: the reply decides between returning and starting GetFeed;
\* the reply is a temporary of line 31
Start_Check ==
    /\ startPc = "enable_sent"
    /\ IF parseResultId(enableRecv)[1] # 0
       THEN startPc' = "returned" /\ UNCHANGED feedStarted
       ELSE startPc' = "status_loop" /\ feedStarted' = TRUE
    /\ enableRecv' = NoText
    /\ UNCHANGED <<feedVars, pubVars, runVars, pollVars, dashCalls>>
    /\ UNCHANGED notDemoVars

-----------------------------------------------------------------------------
(* DobotDemo.GetFeed *)

\* line 56: feedBackData() returns a frame, or None
Feed_Recv ==
    /\ feedStarted /\ feedPc = "recv" /\ frameNo < MaxFrames
    /\ \E f \in DemoFrames \cup {NoFrame} : feedInfo' = f
    /\ frameNo' = frameNo + 1
    /\ feedPc' = "lock"
    /\ UNCHANGED <<globalLock, startVars, pubVars, runVars, pollVars, dashCalls>>
    /\ UNCHANGED notDemoVars

\* line 57: with self.__globalLockValue
Feed_Lock ==
    /\ feedPc = "lock" /\ globalLock = None
    /\ globalLock' = "GetFeed"
    /\ feedPc' = "check"
    /\ UNCHANGED <<feedInfo, frameNo, startVars, pubVars, runVars, pollVars,
                   dashCalls>>
    /\ UNCHANGED notDemoVars

\* lines 58-59
Feed_Check ==
    /\ feedPc = "check"
    /\ feedPc' = IF feedInfo # NoFrame /\ TestValueOk(feedInfo)
                 THEN "w_MessageSize" ELSE "unlock"
    /\ UNCHANGED <<feedInfo, globalLock, frameNo, startVars, pubVars, runVars,
                   pollVars, dashCalls>>
    /\ UNCHANGED notDemoVars

\* one of the assignments of lines 61-65
Feed_Write(pc, field, value, next) ==
    /\ feedPc = pc
    /\ feedData' = [feedData EXCEPT ![field] = value]
    /\ fieldSrc' = IF field \in DOMAIN fieldSrc
                   THEN [fieldSrc EXCEPT ![field] = frameNo] ELSE fieldSrc
    /\ held' = (held \/ (runPc = "poll_id"
                           /\ Completed(feedData', currentCommandID)))
    /\ feedPc' = next
    /\ UNCHANGED <<feedInfo, globalLock, frameNo, rdSrc, startVars, runVars,
                   dashCalls>>
    /\ UNCHANGED notDemoVars

Feed_WriteMessageSize ==
    Feed_Write("w_MessageSize", "MessageSize", feedInfo.len, "w_robotMode")

\* line 62 left out: robotMode keeps the value it had
Feed_WriteRobotMode_Stale ==
    Feed_Write("w_robotMode", "robotMode", feedData.robotMode, "w_DigitalInputs")

Feed_WriteRobotMode ==
    Feed_Write("w_robotMode", "robotMode", feedInfo.RobotMode, "w_DigitalInputs")

Feed_WriteDigitalInputs ==
    Feed_Write("w_DigitalInputs", "DigitalInputs", feedInfo.DigitalInputs,
               "w_DigitalOutputs")

Feed_WriteDigitalOutputs ==
    Feed_Write("w_DigitalOutputs", "DigitalOutputs", feedInfo.DigitalOutputs,
               "w_robotCurrentCommandID")

\* line 65 left out: robotCurrentCommandID keeps the value it had
Feed_WriteCommandID_Stale ==
    Feed_Write("w_robotCurrentCommandID", "robotCurrentCommandID",
               feedData.robotCurrentCommandID, "unlock")

Feed_WriteCommandID ==
    Feed_Write("w_robotCurrentCommandID", "robotCurrentCommandID",
               feedInfo.CurrentCommandId, "unlock")

\* the end of the with block; the loop goes back to line 56
Feed_Unlock ==
    /\ feedPc = "unlock"
    /\ globalLock' = None
    /\ feedPc' = "recv"
    /\ UNCHANGED <<feedInfo, frameNo, startVars, pubVars, runVars, pollVars,
                   dashCalls>>
    /\ UNCHANGED notDemoVars

\* the steps GetFeed takes on its own, once feedBackData() has returned
GetFeed_Process ==
    \/ Feed_Lock \/ Feed_Check
    \/ Feed_WriteMessageSize \/ Feed_WriteRobotMode \/ Feed_WriteDigitalInputs
    \/ Feed_WriteDigitalOutputs \/ Feed_WriteCommandID
    \/ Feed_Unlock

GetFeed == Feed_Recv \/ GetFeed_Process

-----------------------------------------------------------------------------
(* DobotDemo.RunPoint *)

NoRead == [mode |-> NotRead, id |-> NotRead]

\* lines 75-78: MovJ is sent and the command id is taken from the reply;
\* a reply with fewer than two integers raises IndexError at line 78.
\* The caller invokes RunPoint once start() has enabled the robot or given up.
RunPoint_Send(r) ==
    /\ runPc = "idle" /\ startPc \in {"returned", "status_loop"}
    /\ dashCalls' = Append(dashCalls, "MovJ")
    /\ recvmovemess' = r
    /\ printed' = parseResultId(r)
    /\ IF Len(parseResultId(r)) >= 2
       THEN runPc' = "poll" /\ currentCommandID' = parseResultId(r)[2]
       ELSE runPc' = "raised" /\ UNCHANGED currentCommandID
    /\ UNCHANGED <<startVars, feedVars, pubVars, pollVars>>
    /\ UNCHANGED notDemoVars

\* line 84, left operand: self.feedData.robotMode == 5
RunPoint_ReadMode ==
    /\ runPc = "poll"
    /\ rdSrc' = [mode |-> fieldSrc.robotMode, id |-> NotRead]
    /\ held' = Completed(feedData, currentCommandID)
    /\ runPc' = IF feedData.robotMode = ROBOT_MODE_ENABLE
                THEN "poll_id" ELSE "sleep"
    /\ UNCHANGED <<recvmovemess, currentCommandID, printed, startVars,
                   feedVars, pubVars, dashCalls>>
    /\ UNCHANGED notDemoVars

\* line 84, right operand: self.feedData.robotCurrentCommandID == currentCommandID
RunPoint_ReadId ==
    /\ runPc = "poll_id"
    /\ rdSrc' = [rdSrc EXCEPT !.id = fieldSrc.robotCurrentCommandID]
    /\ runPc' = IF feedData.robotCurrentCommandID = currentCommandID
                THEN "done" ELSE "sleep"
    /\ UNCHANGED <<recvmovemess, currentCommandID, printed, held, startVars,
                   feedVars, pubVars, dashCalls>>
    /\ UNCHANGED notDemoVars

\* line 87: sleep(0.1), then the next evaluation
RunPoint_Sleep ==
    /\ runPc = "sleep"
    /\ runPc' = "poll"
    /\ rdSrc' = NoRead
    /\ held' = FALSE
    /\ UNCHANGED <<recvmovemess, currentCommandID, printed, startVars,
                   feedVars, pubVars, dashCalls>>
    /\ UNCHANGED notDemoVars

\* the completion-polling loop, lines 81-87
RunPoint_Poll == RunPoint_ReadMode \/ RunPoint_ReadId \/ RunPoint_Sleep


-----------------------------------------------------------------------------
(* replay_trajectory.main *)

STEP == 2

\* _parse_result_code with the pattern \d+
parse_result_code_Unsigned(reply) ==
    LET toks == FindAllFrom(reply, 1)
    IN  IF toks = <<>> THEN 0
        ELSE IF toks[1][1] = "-" THEN NatOf(Tail(toks[1])) ELSE NatOf(toks[1])

\* _parse_result_code: re.search finds the first match of -?\d+
parse_result_code(reply) ==
    LET toks == FindAllFrom(reply, 1)
    IN  IF toks = <<>> THEN 0 ELSE IntOf(toks[1])

\* int() of a configured value given in tenths: truncation towards zero
IntOfTenths(x) == IF x >= 0 THEN x \div 10 ELSE 0 - ((0 - x) \div 10)

\* lines 173-177
BlendParams(r, cp) ==
    IF r # 0 /\ IntOfTenths(r) > 0 THEN [r |-> IntOfTenths(r), cp |-> 0]
    ELSE IF cp # 0 /\ IntOfTenths(cp) > 0 THEN [r |-> 0, cp |-> IntOfTenths(cp)]
    ELSE [r |-> 0, cp |-> 0]

NoParams == [r |-> 0, cp |-> 0]

DashCall(cmd, idx, params) == [cmd |-> cmd, idx |-> idx, params |-> params]

\* lines 221-230: the finally block closes the client
Replay_Finally(calls) == Append(calls, DashCall("close", 0, NoParams))

\* lines 155-184: the client is created, the robot enabled, the speed set;
\* creating the client or EnableRobot may raise, VelL's error is swallowed
Replay_Setup ==
    /\ rpPc = "start"
    /\ \E outcome \in {"ok", "connect_raises", "enable_raises"} :
          CASE outcome = "ok" ->
                 /\ rpCalls' = <<DashCall("EnableRobot", 0, NoParams),
                                 DashCall("VelL", 0, NoParams)>>
                 /\ rpParams' = BlendParams(BLEND_R_MM, CP_RATIO)
                 /\ rpPc' = "loop"
                 /\ UNCHANGED rpRet
            [] outcome = "connect_raises" ->
                 /\ rpPc' = "returned" /\ rpRet' = 1
                 /\ UNCHANGED <<rpCalls, rpParams>>
            [] outcome = "enable_raises" ->
                 /\ rpCalls' = Replay_Finally(<<DashCall("EnableRobot", 0, NoParams)>>)
                 /\ rpPc' = "returned" /\ rpRet' = 1
                 /\ UNCHANGED rpParams
    /\ UNCHANGED <<BLEND_R_MM, CP_RATIO, nPoses, rpIdx, rpReply>>
    /\ UNCHANGED notReplayVars

\* lines 186-206, one iteration that gets a reply: MovL for poses[idx], the
\* result code, and on a negative code Stop, RuntimeError, return 1
Replay_MovL(reply) ==
    /\ rpPc = "loop" /\ rpIdx < nPoses
    /\ rpReply' = reply
    /\ LET sent == Append(rpCalls, DashCall("MovL", rpIdx, rpParams))
       IN  IF parse_result_code(reply) < 0
           THEN /\ rpCalls' = Replay_Finally(Append(sent, DashCall("Stop", 0, NoParams)))
                /\ rpPc' = "returned" /\ rpRet' = 1
                /\ UNCHANGED rpIdx
           ELSE /\ rpCalls' = sent
                /\ rpIdx' = rpIdx + STEP
                /\ UNCHANGED <<rpPc, rpRet>>
    /\ UNCHANGED <<BLEND_R_MM, CP_RATIO, nPoses, rpParams>>
    /\ UNCHANGED notReplayVars

\* lines 188-197 and 218-220: MovL raises (the link failed), return 1
Replay_MovLRaises ==
    /\ rpPc = "loop" /\ rpIdx < nPoses
    /\ rpCalls' = Replay_Finally(Append(rpCalls, DashCall("MovL", rpIdx, rpParams)))
    /\ rpPc' = "returned" /\ rpRet' = 1
    /\ UNCHANGED <<BLEND_R_MM, CP_RATIO, nPoses, rpIdx, rpParams, rpReply>>
    /\ UNCHANGED notReplayVars

\* lines 208-209: the range is exhausted, return 0
Replay_Done ==
    /\ rpPc = "loop" /\ rpIdx >= nPoses
    /\ rpCalls' = Replay_Finally(rpCalls)
    /\ rpPc' = "returned" /\ rpRet' = 0
    /\ UNCHANGED <<BLEND_R_MM, CP_RATIO, nPoses, rpIdx, rpParams, rpReply>>
    /\ UNCHANGED notReplayVars

\* the configuration as the source file sets it (lines 36, 37)
ReplayIdle ==
    /\ BLEND_R_MM = 20 /\ CP_RATIO = 0 /\ nPoses = 1
    /\ rpPc = "start" /\ rpIdx = 0 /\ rpParams = NoParams
    /\ rpReply = NoText /\ rpCalls = <<>> /\ rpRet = None

\* main() starts with some configuration and some CSV file
ReplayInit ==
    /\ BLEND_R_MM \in {0, 5, 20} /\ CP_RATIO \in {0, 500}
    /\ nPoses \in 1..MaxPoses
    /\ rpPc = "start" /\ rpIdx = 0 /\ rpParams = NoParams
    /\ rpReply = NoText /\ rpCalls = <<>> /\ rpRet = None

ReplayNext ==
    \/ Replay_Setup
    \/ \E reply \in ReplayReplies : Replay_MovL(reply)
    \/ Replay_MovLRaises
    \/ Replay_Done


-----------------------------------------------------------------------------
(* replay_trajectory._wait_until_near_pose *)

\* cur = None
NoPose == <<>>

\* _parse_pose_from_getpose_reply on the list nums of the numbers that
\* _FLOAT_RE finds in the reply: the pose, or NoPose where it raises
\* ValueError (caught at line 137)
parse_pose_from_getpose_reply(nums) ==
    IF Len(nums) >= 7 THEN SubSeq(nums, 2, 7)
    ELSE IF Len(nums) >= 6 THEN SubSeq(nums, Len(nums) - 5, Len(nums))
    ELSE NoPose

Abs(x) == IF x < 0 THEN 0 - x ELSE x
Max3(a, b, c) ==
    IF a >= b /\ a >= c THEN a ELSE IF b >= c THEN b ELSE c

\* pos_err ** 2 of lines 141-144
PosErrSq(cur, target) ==
    (cur[1] - target[1]) * (cur[1] - target[1])
      + (cur[2] - target[2]) * (cur[2] - target[2])
      + (cur[3] - target[3]) * (cur[3] - target[3])

\* rot_err of line 145
RotErr(cur, target) ==
    Max3(Abs(cur[4] - target[4]), Abs(cur[5] - target[5]),
         Abs(cur[6] - target[6]))

\* the test of line 146 with the rotation test left out
IsNear_PosOnly(cur, target, pos_tol_mm, rot_tol_deg) ==
    pos_tol_mm >= 0 /\ PosErrSq(cur, target) <= pos_tol_mm * pos_tol_mm

\* the test of line 146: pos_err is a square root, so it is >= 0
IsNear(cur, target, pos_tol_mm, rot_tol_deg) ==
    /\ pos_tol_mm >= 0 /\ PosErrSq(cur, target) <= pos_tol_mm * pos_tol_mm
    /\ RotErr(cur, target) <= rot_tol_deg

WaitTarget == <<10, 20, 30, 0, 90, 0>>

\* the numbers of the GetPose replies: none, five, a bare pose, an error
\* code and a pose, and eight numbers
GetPoseNums ==
    {<<>>,
     <<0, 10, 20, 30, 0>>,
     <<10, 20, 30, 0, 90, 0>>,
     <<13, 24, 30, 0, 90, 0>>,
     <<0, 10, 20, 30, 0, 92, 0>>,
     <<0, 400, 20, 30, 0, 90, 0>>,
     <<0, 13, 24, 30, 0, 88, 0, 3>>}

\* no call of _wait_until_near_pose was made
IdleWait ==
    [pc |-> "idle", pos_tol_mm |-> 0, rot_tol_deg |-> 0, timeout_s |-> 0,
     now |-> 0, polls |-> 0, nums |-> <<>>, cur |-> NoPose]

WaitIdle == wt = IdleWait

\* a call _wait_until_near_pose(dash, WaitTarget, ...) : start = time.time()
\* is tick 0 of the clock (line 132)
WaitInit ==
    \E p \in {0, 5}, r \in {0, 2}, to \in {0, 2} :
        wt = [IdleWait EXCEPT !.pc = "poll", !.pos_tol_mm = p,
                              !.rot_tol_deg = r, !.timeout_s = to]

Tick(now, d) == IF now + d > MaxWaitTicks THEN MaxWaitTicks ELSE now + d

\* lines 134-138: GetPose takes no or one tick, and its reply is parsed
Wait_GetPose(nums, d) ==
    /\ wt.pc = "poll"
    /\ wt' = [wt EXCEPT !.pc = "compare", !.nums = nums,
                        !.cur = parse_pose_from_getpose_reply(nums),
                        !.now = Tick(wt.now, d), !.polls = wt.polls + 1]
    /\ UNCHANGED notWaitVars

\* lines 140-147
Wait_Compare ==
    /\ wt.pc = "compare"
    /\ wt' = IF wt.cur # NoPose
                 /\ IsNear(wt.cur, WaitTarget, wt.pos_tol_mm, wt.rot_tol_deg)
              THEN [wt EXCEPT !.pc = "returned"]
              ELSE [wt EXCEPT !.pc = "deadline"]
    /\ UNCHANGED notWaitVars

\* lines 149-150: start is tick 0
Wait_Deadline ==
    /\ wt.pc = "deadline"
    /\ wt' = IF wt.now - 0 >= wt.timeout_s
              THEN [wt EXCEPT !.pc = "TimeoutError"]
              ELSE [wt EXCEPT !.pc = "sleep"]
    /\ UNCHANGED notWaitVars

\* line 151: time.sleep(poll_s) takes one tick
Wait_Sleep ==
    /\ wt.pc = "sleep"
    /\ wt' = [wt EXCEPT !.pc = "poll", !.now = Tick(wt.now, 1)]
    /\ UNCHANGED notWaitVars

WaitNext ==
    \/ \E nums \in GetPoseNums, d \in {0, 1} : Wait_GetPose(nums, d)
    \/ Wait_Compare
    \/ Wait_Deadline
    \/ Wait_Sleep


-----------------------------------------------------------------------------
(* RobotiqEpick: the register encoding *)

ROBORIQ_EPICK_WRITE_ADDRESS == 1000
RELEASE_VACUUM == 255

RECURSIVE BitsOf(_)
\* the binary digits of n >= 0, as Python's bin() prints them after "0b"
BitsOf(n) ==
    IF n < 2 THEN <<IF n = 1 THEN "1" ELSE "0">>
    ELSE Append(BitsOf(n \div 2), IF n % 2 = 1 THEN "1" ELSE "0")

\* bin(num)[2:] : for a negative num, bin() prints "-0b..." and the slice
\* keeps the "b"
BinSlice(num) == IF num >= 0 THEN BitsOf(num) ELSE <<"b">> \o BitsOf(0 - num)

\* "0" * n : n zeros, none for n <= 0
Zeros(n) == [i \in 1..n |-> "0"]

\* str.zfill
zfill(str, length) == Zeros(length - Len(str)) \o str

decimalToBinaryString(num, length) == zfill(BinSlice(num), length)

IsBits(str) == Len(str) > 0 /\ \A i \in 1..Len(str) : str[i] \in {"0", "1"}

\* int(str, 2) accepts binary digits, with an optional "0b" in front
IsBinaryLiteral(str) ==
    \/ IsBits(str)
    \/ Len(str) > 2 /\ str[1] = "0" /\ str[2] = "b" /\ IsBits(SubSeq(str, 3, Len(str)))

RECURSIVE BitsValue(_)
BitsValue(str) ==
    IF str = <<>> THEN 0
    ELSE 2 * BitsValue(SubSeq(str, 1, Len(str) - 1))
           + (IF str[Len(str)] = "1" THEN 1 ELSE 0)

\* int(binaryStr, 2), for a string it accepts
binaryStringToDecimal(binaryStr) ==
    IF IsBits(binaryStr) THEN BitsValue(binaryStr)
    ELSE BitsValue(SubSeq(binaryStr, 3, Len(binaryStr)))

ACTION_CMD ==
    [ACT |-> [CLEAR_FAULT_STATUS |-> <<"0">>, ENABLE |-> <<"1">>],
     MOD |-> [AUTO |-> <<"0", "0">>, ADVANCED |-> <<"0", "1">>],
     GTO |-> [HOLD |-> <<"0">>, CONTROLED |-> <<"1">>],
     ATR |-> [NORMAL |-> <<"0">>, RELEASE_WITH_NO_TIMEOUT |-> <<"1">>]]

\* "".join(x)
Join(x) == IF Len(x) = 0 THEN <<>> ELSE x[1] \o x[2] \o x[3] \o x[4]

\* CMD_HANDLER["ACTION"] without the eight zeros
CMD_ACTION_NoPad(x) == binaryStringToDecimal(Join(x))

\* CMD_HANDLER["ACTION"]
CMD_ACTION(x) == binaryStringToDecimal(Join(x) \o Zeros(8))

\* CMD_HANDLER["MAX_VACUUM"], its argument string and its value
MAX_VACUUM_Str(x) == Zeros(8) \o decimalToBinaryString(x, 8)
CMD_MAX_VACUUM(x) == binaryStringToDecimal(MAX_VACUUM_Str(x))

\* CMD_HANDLER["MIN_VACUUM"], CMD_HANDLER["TIMEOUT"]
CMD_MIN_VACUUM(x) == decimalToBinaryString(x, 8)
CMD_TIMEOUT(x) == decimalToBinaryString(x, 8)

\* math.ceil(timeout / 100)
CeilDiv100(timeout) == 0 - ((0 - timeout) \div 100)

\* the action words the three methods build
WordClearFault ==
    CMD_ACTION(<<ACTION_CMD.ATR.NORMAL, ACTION_CMD.GTO.HOLD,
                 ACTION_CMD.MOD.ADVANCED, ACTION_CMD.ACT.CLEAR_FAULT_STATUS>>)
WordEnableHold ==
    CMD_ACTION(<<ACTION_CMD.ATR.NORMAL, ACTION_CMD.GTO.HOLD,
                 ACTION_CMD.MOD.ADVANCED, ACTION_CMD.ACT.ENABLE>>)
WordControlled ==
    CMD_ACTION(<<ACTION_CMD.ATR.NORMAL, ACTION_CMD.GTO.CONTROLED,
                 ACTION_CMD.MOD.ADVANCED, ACTION_CMD.ACT.ENABLE>>)

\* grip lines 112-114: the string handed to binaryStringToDecimal
TimeoutAndMin_Str(a) ==
    CMD_TIMEOUT(CeilDiv100(a.timeout)) \o CMD_MIN_VACUUM(100 - a.min_v)

\* grip lines 111-114 raise ValueError when int(..., 2) rejects a string
GripParamsRaise(a) ==
    \/ ~IsBinaryLiteral(MAX_VACUUM_Str(100 - a.max_v))
    \/ ~IsBinaryLiteral(TimeoutAndMin_Str(a))


NoArgs == [max_v |-> 0, min_v |-> 0, timeout |-> 0]

Bit == {<<"0">>, <<"1">>}
TwoBits == {<<"0", "0">>, <<"0", "1">>, <<"1", "0">>, <<"1", "1">>}

\* the field lists CMD_HANDLER["ACTION"] is given: ATR, GTO, MOD, ACT
ActionFields == {<<atr, gto, mod, act>> : atr \in Bit, gto \in Bit,
                                         mod \in TwoBits, act \in Bit}

\* the arguments of grip() tried on the parameter encoding
EncodeArgs ==
    {[max_v |-> mx, min_v |-> mn, timeout |-> tm] :
        mx \in {0, 60, 100}, mn \in {0, 40, 100},
        tm \in {0, 1, 100, 250, 25500, 25501, 30000}}

NoFields == <<>>

\* grip lines 111-114: the two parameter registers, or nothing when int()
\* raises ValueError
GripParams(a) ==
    IF GripParamsRaise(a) THEN <<>>
    ELSE <<CMD_MAX_VACUUM(100 - a.max_v),
           binaryStringToDecimal(TimeoutAndMin_Str(a))>>

Encode_Action(x) ==
    /\ encCalls < MaxEncodes
    /\ encCalls' = encCalls + 1
    /\ encIn' = [kind |-> "ACTION", x |-> x, a |-> NoArgs]
    /\ encOut' = <<CMD_ACTION(x)>>
    /\ UNCHANGED notEncVars

Encode_GripParams(a) ==
    /\ encCalls < MaxEncodes
    /\ encCalls' = encCalls + 1
    /\ encIn' = [kind |-> "PARAMS", x |-> NoFields, a |-> a]
    /\ encOut' = GripParams(a)
    /\ UNCHANGED notEncVars

EncIdle ==
    /\ encIn = [kind |-> "none", x |-> NoFields, a |-> NoArgs]
    /\ encOut = <<>>
    /\ encCalls = 0

EncodeNext ==
    \/ \E x \in ActionFields : Encode_Action(x)
    \/ \E a \in EncodeArgs : Encode_GripParams(a)

Write(address, datas) == [address |-> address, datas |-> datas]

\* init() sending its enable word first
InitWrites_EnableFirst ==
    <<Write(ROBORIQ_EPICK_WRITE_ADDRESS,
            <<WordEnableHold, CMD_MAX_VACUUM(RELEASE_VACUUM)>>),
      Write(ROBORIQ_EPICK_WRITE_ADDRESS,
            <<WordClearFault, CMD_MAX_VACUUM(RELEASE_VACUUM)>>)>>

\* the register writes of init(), in order
InitWrites ==
    <<Write(ROBORIQ_EPICK_WRITE_ADDRESS,
            <<WordClearFault, CMD_MAX_VACUUM(RELEASE_VACUUM)>>),
      Write(ROBORIQ_EPICK_WRITE_ADDRESS,
            <<WordEnableHold, CMD_MAX_VACUUM(RELEASE_VACUUM)>>)>>

\* grip() sending its parameters before its enable word
GripWrites_ParamsBeforeEnable(a) ==
    <<Write(ROBORIQ_EPICK_WRITE_ADDRESS, <<WordClearFault>>),
      Write(ROBORIQ_EPICK_WRITE_ADDRESS + 1,
            <<CMD_MAX_VACUUM(100 - a.max_v),
              binaryStringToDecimal(TimeoutAndMin_Str(a))>>),
      Write(ROBORIQ_EPICK_WRITE_ADDRESS, <<WordEnableHold>>),
      Write(ROBORIQ_EPICK_WRITE_ADDRESS, <<WordControlled>>)>>

\* the register writes of grip(max_v, min_v, timeout), in order
GripWrites(a) ==
    <<Write(ROBORIQ_EPICK_WRITE_ADDRESS, <<WordClearFault>>),
      Write(ROBORIQ_EPICK_WRITE_ADDRESS, <<WordEnableHold>>),
      Write(ROBORIQ_EPICK_WRITE_ADDRESS + 1,
            <<CMD_MAX_VACUUM(100 - a.max_v),
              binaryStringToDecimal(TimeoutAndMin_Str(a))>>),
      Write(ROBORIQ_EPICK_WRITE_ADDRESS, <<WordControlled>>)>>

\* release() returning to hold before it releases
ReleaseWrites_HoldFirst ==
    <<Write(ROBORIQ_EPICK_WRITE_ADDRESS, <<WordClearFault>>),
      Write(ROBORIQ_EPICK_WRITE_ADDRESS, <<WordEnableHold>>),
      Write(ROBORIQ_EPICK_WRITE_ADDRESS,
            <<WordControlled, CMD_MAX_VACUUM(RELEASE_VACUUM)>>)>>

\* the register writes of release(), in order
ReleaseWrites ==
    <<Write(ROBORIQ_EPICK_WRITE_ADDRESS, <<WordClearFault>>),
      Write(ROBORIQ_EPICK_WRITE_ADDRESS,
            <<WordControlled, CMD_MAX_VACUUM(RELEASE_VACUUM)>>),
      Write(ROBORIQ_EPICK_WRITE_ADDRESS, <<WordEnableHold>>)>>

\* the arguments grip() is called with
GripArgs ==
    {[max_v |-> 60, min_v |-> 40, timeout |-> 250],
     [max_v |-> 120, min_v |-> 40, timeout |-> 0]}

NWrites(op) == CASE op = "init" -> 2 [] op = "grip" -> 4 [] op = "release" -> 3

-----------------------------------------------------------------------------
(* RobotiqEpick: the methods, run by the threads that call them *)

GripThreads == {1, 2}

\* a thread that runs no method; while a method runs, failed records whether
\* one of its writes has returned an error result (the code keeps no such
\* flag)
IdleThread ==
    [op |-> "none", pc |-> "idle", k |-> 0, args |-> NoArgs, call |-> 0,
     ret |-> "none", failed |-> FALSE]

\* what write k of the running method sends
CurrentWrite(t) ==
    CASE gth[t].op = "init" -> InitWrites[gth[t].k]
      [] gth[t].op = "grip" -> GripWrites(gth[t].args)[gth[t].k]
      [] gth[t].op = "release" -> ReleaseWrites[gth[t].k]

\* the replies the dashboard gives to SetHoldRegs and to ModbusClose
HoldRegsReplies == {"0", "-1"}

\* what write_by_485 returns when the write did not take place: the text of
\* line 82, or a reply of the dashboard that is not the success reply
IsErrorResult(result) == result \in {"Error: No Modbus Index", "-1"}

\* a thread calls init(), grip(max_v, min_v, timeout) or release(); the
\* threads are numbered in the order of their first calls
Epick_Call(t, op, a) ==
    /\ gth[t].pc = "idle" /\ gripCalls < MaxGripCalls
    /\ \A u \in GripThreads : u < t => gth[u].op # "none"
    /\ gripCalls' = gripCalls + 1
    /\ gth' = [gth EXCEPT ![t] = [op |-> op, pc |-> "w_check", k |-> 1,
                                  args |-> a, call |-> gripCalls + 1,
                                  ret |-> "none", failed |-> FALSE]]
    /\ UNCHANGED <<ModbusIndex, write_lock, wire>>
    /\ UNCHANGED notGripVars

\* write_by_485 without the test of line 82
Write_Check_NoTest(t) ==
    /\ gth[t].pc = "w_check"
    /\ gth' = [gth EXCEPT ![t].pc = "w_lock"]
    /\ UNCHANGED <<ModbusIndex, write_lock, gripCalls, wire>>
    /\ UNCHANGED notGripVars

\* write_by_485 line 82
Write_Check(t) ==
    /\ gth[t].pc = "w_check"
    /\ gth' = IF ModbusIndex = <<>>
              THEN [gth EXCEPT ![t].pc = "w_done",
                               ![t].ret = "Error: No Modbus Index",
                               ![t].failed = TRUE]
              ELSE [gth EXCEPT ![t].pc = "w_lock"]
    /\ UNCHANGED <<ModbusIndex, write_lock, gripCalls, wire>>
    /\ UNCHANGED notGripVars

\* write_by_485 entering without waiting for the lock
Write_Lock_NoWait(t) ==
    /\ gth[t].pc = "w_lock"
    /\ write_lock' = t
    /\ gth' = [gth EXCEPT ![t].pc = "w_settool"]
    /\ UNCHANGED <<ModbusIndex, gripCalls, wire>>
    /\ UNCHANGED notGripVars

\* write_by_485 line 83: with self.write_lock
Write_Lock(t) ==
    /\ gth[t].pc = "w_lock" /\ write_lock = 0
    /\ write_lock' = t
    /\ gth' = [gth EXCEPT ![t].pc = "w_settool"]
    /\ UNCHANGED <<ModbusIndex, gripCalls, wire>>
    /\ UNCHANGED notGripVars

WireCall(t, cmd, index, w) ==
    [call |-> gth[t].call, op |-> gth[t].op, cmd |-> cmd, index |-> index,
     address |-> w.address, datas |-> w.datas]

\* write_by_485 lines 84-85
Write_SetTool485(t) ==
    /\ gth[t].pc = "w_settool"
    /\ wire' = Append(wire, WireCall(t, "SetTool485", <<>>, Write(0, <<>>)))
    /\ gth' = [gth EXCEPT ![t].pc = "w_sethold"]
    /\ UNCHANGED <<ModbusIndex, write_lock, gripCalls>>
    /\ UNCHANGED notGripVars

\* write_by_485 lines 86-88: ModbusIndex is read again for the call
Write_SetHoldRegs(t) ==
    /\ gth[t].pc = "w_sethold"
    /\ wire' = Append(wire, WireCall(t, "SetHoldRegs", ModbusIndex, CurrentWrite(t)))
    /\ \E result \in HoldRegsReplies :
          gth' = [gth EXCEPT ![t].pc = "w_settle", ![t].ret = result,
                             ![t].failed = (gth[t].failed \/ IsErrorResult(result))]
    /\ UNCHANGED <<ModbusIndex, write_lock, gripCalls>>
    /\ UNCHANGED notGripVars

\* write_by_485 lines 89-90: the settle delay is over, the lock is released
Write_Unlock(t) ==
    /\ gth[t].pc = "w_settle"
    /\ write_lock' = 0
    /\ gth' = [gth EXCEPT ![t].pc = "w_done"]
    /\ UNCHANGED <<ModbusIndex, gripCalls, wire>>
    /\ UNCHANGED notGripVars

\* back in init/grip/release after a write: the next write (the result of
\* this one is dropped), a ValueError of grip's parameter encoding (lines
\* 111-114), or the return of the last result
Epick_Continue(t) ==
    /\ gth[t].pc = "w_done"
    /\ gth' = IF gth[t].k = NWrites(gth[t].op)
              THEN [gth EXCEPT ![t].pc = "idle", ![t].failed = FALSE]
              ELSE IF gth[t].op = "grip" /\ gth[t].k = 1 /\ GripParamsRaise(gth[t].args)
              THEN [gth EXCEPT ![t].pc = "idle", ![t].ret = "ValueError",
                               ![t].failed = FALSE]
              ELSE IF gth[t].op = "release" /\ gth[t].k = 2
              THEN [gth EXCEPT ![t].pc = "r_sleep", ![t].ret = "none"]
              ELSE [gth EXCEPT ![t].pc = "w_check", ![t].k = gth[t].k + 1,
                               ![t].ret = "none"]
    /\ UNCHANGED <<ModbusIndex, write_lock, gripCalls, wire>>
    /\ UNCHANGED notGripVars

\* release line 140: time.sleep(1) is over
Release_Sleep(t) ==
    /\ gth[t].pc = "r_sleep"
    /\ gth' = [gth EXCEPT ![t].pc = "w_check", ![t].k = 3]
    /\ UNCHANGED <<ModbusIndex, write_lock, gripCalls, wire>>
    /\ UNCHANGED notGripVars

write_by_485(t) ==
    \/ Write_Check(t) \/ Write_Lock(t) \/ Write_SetTool485(t)
    \/ Write_SetHoldRegs(t) \/ Write_Unlock(t)

\* create_modbus_channel lines 67-72: the session index after the reply
create_modbus_channel(index, response) ==
    LET toks == FindAllFrom(response, 1)
        numbers == [k \in 1..Len(toks) |-> IntOf(toks[k])]
    IN  IF Len(numbers) > 1 THEN <<numbers[2]>> ELSE index

\* replies of ModbusRTUCreate
T_CreateOk == <<"0", ",", "{", "1", "}", ",", "M", "(", "9", ")", ";">>
T_CreateFail == <<"-", "1", ",", "{", "}", ",", "M", "(", "9", ")", ";">>
T_CreateBare == <<"0">>

CreateReplies == {T_CreateOk, T_CreateFail, T_CreateBare}

\* create_modbus_channel lines 65-73: the pair (error_id, modbus_index) it
\* returns
create_result(response) ==
    LET toks == FindAllFrom(response, 1)
        numbers == [k \in 1..Len(toks) |-> IntOf(toks[k])]
    IN  <<IF Len(numbers) > 0 THEN numbers[1] ELSE 0,
          IF Len(numbers) > 1 THEN numbers[2] ELSE 0 - 1>>

\* a call that thread t makes on the dashboard client outside write_by_485
ChannelCall(op, cmd, index) ==
    [call |-> gripCalls + 1, op |-> op, cmd |-> cmd, index |-> index,
     address |-> 0, datas |-> <<>>]

\* thread t calls create_modbus_channel (lines 62-73): ModbusClose(0), then
\* ModbusRTUCreate, whose reply is response
Epick_Create(t, response) ==
    /\ gth[t].pc = "idle" /\ gripCalls < MaxGripCalls
    /\ gripCalls' = gripCalls + 1
    /\ wire' = wire \o <<ChannelCall("create_modbus_channel", "ModbusClose", <<0>>),
                         ChannelCall("create_modbus_channel", "ModbusRTUCreate", <<>>)>>
    /\ ModbusIndex' = create_modbus_channel(ModbusIndex, response)
    /\ gth' = [gth EXCEPT ![t] = [IdleThread EXCEPT
                                    !.op = "create_modbus_channel",
                                    !.call = gripCalls + 1,
                                    !.ret = create_result(response)]]
    /\ UNCHANGED write_lock
    /\ UNCHANGED notGripVars

\* close_modbus_channel that sends ModbusClose whether or not there is a
\* session
Epick_Close_NoTest(t) ==
    /\ gth[t].pc = "idle" /\ gripCalls < MaxGripCalls
    /\ gripCalls' = gripCalls + 1
    /\ \E result \in HoldRegsReplies :
          /\ wire' = Append(wire, ChannelCall("close_modbus_channel",
                                              "ModbusClose", ModbusIndex))
          /\ gth' = [gth EXCEPT ![t] = [IdleThread EXCEPT
                                          !.op = "close_modbus_channel",
                                          !.call = gripCalls + 1,
                                          !.ret = result]]
    /\ ModbusIndex' = <<>>
    /\ UNCHANGED write_lock
    /\ UNCHANGED notGripVars

\* thread t calls close_modbus_channel (lines 75-79)
Epick_Close(t) ==
    /\ gth[t].pc = "idle" /\ gripCalls < MaxGripCalls
    /\ gripCalls' = gripCalls + 1
    /\ IF ModbusIndex = <<>>
       THEN /\ gth' = [gth EXCEPT ![t] = [IdleThread EXCEPT
                                            !.op = "close_modbus_channel",
                                            !.call = gripCalls + 1,
                                            !.ret = "Modbus Not Connected"]]
            /\ UNCHANGED <<wire, ModbusIndex>>
       ELSE /\ \E result \in HoldRegsReplies :
                  /\ wire' = Append(wire, ChannelCall("close_modbus_channel",
                                                      "ModbusClose", ModbusIndex))
                  /\ gth' = [gth EXCEPT ![t] = [IdleThread EXCEPT
                                                  !.op = "close_modbus_channel",
                                                  !.call = gripCalls + 1,
                                                  !.ret = result]]
            /\ ModbusIndex' = <<>>
    /\ UNCHANGED write_lock
    /\ UNCHANGED notGripVars

\* RobotiqEpick.__init__ : no session, lock free
GripIdle ==
    /\ ModbusIndex = <<>> /\ write_lock = 0
    /\ gth = [t \in GripThreads |-> IdleThread]
    /\ gripCalls = 0 /\ wire = <<>>

\* a RobotiqEpick whose session was opened by create_modbus_channel, or not
GripInit ==
    /\ ModbusIndex \in {<<>>, <<0>>} /\ write_lock = 0
    /\ gth = [t \in GripThreads |-> IdleThread]
    /\ gripCalls = 0 /\ wire = <<>>

GripNext ==
    \E t \in GripThreads :
        \/ Epick_Call(t, "init", NoArgs)
        \/ \E a \in GripArgs : Epick_Call(t, "grip", a)
        \/ Epick_Call(t, "release", NoArgs)
        \/ write_by_485(t)
        \/ Epick_Continue(t)
        \/ Release_Sleep(t)


-----------------------------------------------------------------------------
(* RobotUI: connect_port and the feed_back threads *)

FRAME_LEN == 1440
ROBOT_MODE_ERROR == 9

\* the keys of LABEL_ROBOT_MODE
LABEL_ROBOT_MODE_KEYS == 1..11

LABEL_ROBOT_MODE(mode) ==
    CASE mode = 1 -> "ROBOT_MODE_INIT"
      [] mode = 2 -> "ROBOT_MODE_BRAKE_OPEN"
      [] mode = 3 -> ""
      [] mode = 4 -> "ROBOT_MODE_DISABLED"
      [] mode = 5 -> "ROBOT_MODE_ENABLE"
      [] mode = 6 -> "ROBOT_MODE_DRAGE"
      [] mode = 7 -> "ROBOT_MODE_RUNNING"
      [] mode = 8 -> "ROBOT_MODE_RECORDING"
      [] mode = 9 -> "ROBOT_MODE_ERROR"
      [] mode = 10 -> "ROBOT_MODE_PAUSE"
      [] mode = 11 -> "ROBOT_MODE_JOG"

\* str.rjust(width, "0")
rjust(str, width) == Zeros(width - Len(str)) \o str

\* bin(x)[2:].rjust(64, '0')
BitsLabel(x) == rjust(BinSlice(x), 64)

\* np.around(v, decimals=4) on a value counted in units of 0.00001:
\* to the nearest multiple of 0.0001, halves to the even one
Around4(v) ==
    LET q == v \div 10
        r == v % 10
    IN  IF r < 5 THEN 10 * q
        ELSE IF r > 5 THEN 10 * (q + 1)
        ELSE IF q % 2 = 0 THEN 10 * q ELSE 10 * (q + 1)

\* set_feed_joint: the six label texts
set_feed_joint(value) == [i \in 1..6 |-> Around4(value[i])]

\* a telemetry frame as feed_back reads it
UiFrame(tv, mode, q) ==
    [TestValue |-> tv, SpeedScaling |-> 50, RobotMode |-> mode,
     DigitalInputs |-> 5, DigitalOutputs |-> 2,
     QActual |-> <<q, 0 - q, q + 10, 0, 15, 25>>,
     ToolVectorActual |-> <<q + 1, 123455, 0 - 123445, 0, 0, 17>>]

\* the bytes of a read that hold no whole frame
NoUiFrame == [none |-> TRUE]

\* what one recv returns: n bytes, the first FRAME_LEN of them being frame
Chunk(n, frame) == [n |-> n, frame |-> frame]

NoBytes == Chunk(0, NoUiFrame)

UiChunks ==
    {Chunk(720, NoUiFrame),
     Chunk(FRAME_LEN, UiFrame(Magic, ROBOT_MODE_ENABLE, 123455)),
     Chunk(FRAME_LEN, UiFrame(Magic, ROBOT_MODE_ERROR, 7)),
     Chunk(FRAME_LEN, UiFrame(Magic, 0, 7)),
     Chunk(FRAME_LEN, UiFrame(MagicShifted, ROBOT_MODE_ERROR, 99)),
     Chunk(2 * FRAME_LEN, UiFrame(Magic, ROBOT_MODE_RUNNING, 64))}

UiThreads == 1..MaxClicks

\* a feed_back thread that was not started; no is the number of the read,
\* counted over the life of the program, that gave the thread the bytes it
\* is working on (0 when it is working on none)
Unborn == [pc |-> "unborn", temp |-> NoBytes, data |-> NoBytes, no |-> 0]

\* connect_port lines 488-499: the clients, the gripper and its session are
\* made; any of the steps may raise, and the handler then returns
Ui_Connect_OpenWith(responses) ==
    /\ mainPc = "idle" /\ ~connect /\ clicks < MaxClicks
    /\ clicks' = clicks + 1
    /\ \/ \* DobotApiDashboard(...) raises
          /\ UNCHANGED <<client_dash, client_feed, epick, mainPc, gripVars>>
       \/ \* DobotApiFeedBack(...) raises
          /\ client_dash' = clicks + 1
          /\ UNCHANGED <<client_feed, epick, mainPc, gripVars>>
       \/ \* create_modbus_channel raises, or returns after the reply
          /\ client_dash' = clicks + 1 /\ client_feed' = clicks + 1
          /\ epick' = TRUE /\ write_lock' = 0
          /\ \/ ModbusIndex' = <<>> /\ UNCHANGED mainPc
             \/ \E response \in responses :
                   /\ ModbusIndex' = create_modbus_channel(<<>>, response)
                   /\ mainPc' = "toggle"
          /\ UNCHANGED <<gth, gripCalls, wire>>
    /\ UNCHANGED <<connect, uth, recvs, uiPub>>
    /\ UNCHANGED notUiVars

Ui_Connect_Open == Ui_Connect_OpenWith(CreateReplies)

\* connect_port lines 488-499 with a controller that creates the session
Ui_Connect_OpenOk == Ui_Connect_OpenWith({T_CreateOk})

\* connect_port lines 461-478: stop_record has returned (at once when
\* nothing is recorded, line 661), then the session and both clients are
\* closed; ModbusClose may raise, and the handler then ends
Ui_Connect_Close ==
    /\ \/ mainPc = "idle" /\ ~rec.running
       \/ mainPc = "closing"
    /\ connect /\ clicks < MaxClicks
    /\ clicks' = clicks + 1
    /\ \/ \* close_modbus_channel line 77: ModbusClose raises
          /\ epick /\ ModbusIndex # <<>>
          /\ mainPc' = "idle"
          /\ UNCHANGED <<ModbusIndex, client_dash, client_feed, epick>>
       \/ /\ ModbusIndex' = <<>> /\ epick' = FALSE
          /\ client_dash' = 0 /\ client_feed' = 0
          /\ mainPc' = "toggle"
    /\ UNCHANGED <<write_lock, gth, gripCalls, wire>>
    /\ UNCHANGED <<connect, uth, recvs, uiPub>>
    /\ UNCHANGED notUiVars

\* connect_port lines 502-503 and set_feed_back: the flag is flipped and,
\* when it is now set, a feed_back thread is started
Ui_Connect_Toggle ==
    /\ mainPc = "toggle"
    /\ mainPc' = "idle"
    /\ connect' = ~connect
    /\ uth' = IF ~connect
              THEN [uth EXCEPT ![clicks] = [pc |-> "top", temp |-> NoBytes,
                                           data |-> NoBytes, no |-> 0]]
              ELSE uth
    /\ UNCHANGED <<client_dash, client_feed, epick, clicks, recvs, uiPub>>
    /\ UNCHANGED <<gripVars, notUiVars>>

connect_port == Ui_Connect_Open \/ Ui_Connect_Close \/ Ui_Connect_Toggle

\* a feed_back step that only moves the thread
FB_Goto(t, pc) ==
    /\ uth' = [uth EXCEPT ![t].pc = pc,
                          ![t].no = IF pc \in {"top", "sleep", "py_top", "py_raised"}
                                    THEN 0 ELSE @]
    /\ UNCHANGED <<uiConnVars, recvs, uiPub>>
    /\ UNCHANGED <<gripVars, notUiVars>>

\* feed_back without the test of line 964
FB_Top_NoCheck(t) ==
    /\ uth[t].pc = "top"
    /\ FB_Goto(t, "setblocking")

\* line 964
FB_Top(t) ==
    /\ uth[t].pc = "top"
    /\ FB_Goto(t, IF ~connect THEN "exited" ELSE "setblocking")

\* lines 965-966: outside the try; with no client the thread ends with the
\* exception
FB_SetBlocking(t) ==
    /\ uth[t].pc = "setblocking"
    /\ uth' = IF client_feed = 0
              THEN [uth EXCEPT ![t].pc = "died"]
              ELSE [uth EXCEPT ![t].pc = "recv", ![t].data = NoBytes]
    /\ UNCHANGED <<uiConnVars, recvs, uiPub>>
    /\ UNCHANGED <<gripVars, notUiVars>>

\* a recv(144000) of lines 968 and 970: bytes arrive, or the call raises
FB_RecvAt(t, pc, next) ==
    /\ uth[t].pc = pc
    /\ IF client_feed = 0
       THEN uth' = [uth EXCEPT ![t].pc = "sleep", ![t].no = 0] /\ UNCHANGED recvs
       ELSE /\ recvs < MaxRecvs
            /\ recvs' = recvs + 1
            /\ \/ uth' = [uth EXCEPT ![t].pc = "sleep", ![t].no = 0]
               \/ \E c \in UiChunks :
                     uth' = [uth EXCEPT ![t].temp = c, ![t].no = recvs + 1,
                                        ![t].pc = IF pc = "recv" /\ c.n > FRAME_LEN
                                                  THEN "recv2" ELSE next]
    /\ UNCHANGED <<uiConnVars, uiPub>>
    /\ UNCHANGED <<gripVars, notUiVars>>

\* line 968
FB_Recv(t) == FB_RecvAt(t, "recv", "slice")

\* lines 969-970
FB_Recv2(t) == FB_RecvAt(t, "recv2", "slice")

\* temp taken whole, without the slice
Slice_Whole(temp) == temp

\* temp[0:1440]
Slice(temp) ==
    IF temp.n > FRAME_LEN THEN Chunk(FRAME_LEN, temp.frame) ELSE temp

\* lines 971-973
FB_Slice(t) ==
    /\ uth[t].pc = "slice"
    /\ uth' = [uth EXCEPT ![t].data = Slice(uth[t].temp),
                          ![t].pc = IF Slice(uth[t].temp).n < FRAME_LEN
                                    THEN "top" ELSE "check",
                          ![t].no = IF Slice(uth[t].temp).n < FRAME_LEN
                                    THEN 0 ELSE @]
    /\ UNCHANGED <<uiConnVars, recvs, uiPub>>
    /\ UNCHANGED <<gripVars, notUiVars>>

\* lines 975-976
FB_Check(t) ==
    /\ uth[t].pc = "check"
    /\ FB_Goto(t, IF TestValueOk(uth[t].data.frame) THEN "speed" ELSE "top")

\* one assignment of lines 977-989
FB_Set(t, pc, lab, joints, tcp, next) ==
    /\ uth[t].pc = pc
    /\ label' = lab /\ latest_joints' = joints /\ latest_tcp' = tcp
    /\ uth' = [uth EXCEPT ![t].pc = next]
    /\ UNCHANGED <<uiConnVars, recvs, text_err>>
    /\ UNCHANGED <<gripVars, notUiVars>>

\* line 977
FB_Speed(t) ==
    FB_Set(t, "speed",
           [label EXCEPT !.speed = <<uth[t].data.frame.SpeedScaling>>],
           latest_joints, latest_tcp, "mode")

\* line 978: a mode that is no key of LABEL_ROBOT_MODE raises KeyError
FB_Mode(t) ==
    IF uth[t].data.n = FRAME_LEN
         /\ uth[t].data.frame.RobotMode \in LABEL_ROBOT_MODE_KEYS
    THEN FB_Set(t, "mode",
                [label EXCEPT !.mode = LABEL_ROBOT_MODE(uth[t].data.frame.RobotMode)],
                latest_joints, latest_tcp, "di")
    ELSE uth[t].pc = "mode" /\ FB_Goto(t, "sleep")

\* line 979
FB_DigitalInputs(t) ==
    FB_Set(t, "di",
           [label EXCEPT !.di = BitsLabel(uth[t].data.frame.DigitalInputs)],
           latest_joints, latest_tcp, "do")

\* line 980
FB_DigitalOutputs(t) ==
    FB_Set(t, "do",
           [label EXCEPT !.do = BitsLabel(uth[t].data.frame.DigitalOutputs)],
           latest_joints, latest_tcp, "joints")

\* line 981
FB_Joints(t) ==
    FB_Set(t, "joints",
           [label EXCEPT !.joints = set_feed_joint(uth[t].data.frame.QActual)],
           latest_joints, latest_tcp, "coords")

\* line 982
FB_Coords(t) ==
    FB_Set(t, "coords",
           [label EXCEPT !.coords = set_feed_joint(uth[t].data.frame.ToolVectorActual)],
           latest_joints, latest_tcp, "cache_joints")

\* lines 985-988
FB_CacheJoints(t) ==
    FB_Set(t, "cache_joints", label,
           [i \in 1..6 |-> Around4(uth[t].data.frame.QActual[i])],
           latest_tcp, "cache_tcp")

\* line 989
FB_CacheTcp(t) ==
    FB_Set(t, "cache_tcp", label, latest_joints,
           [i \in 1..6 |-> Around4(uth[t].data.frame.ToolVectorActual[i])],
           "error")

\* a call made on the dashboard client outside write_by_485
OtherCall(op, cmd) ==
    [call |-> 0, op |-> op, cmd |-> cmd, index |-> <<>>,
     address |-> 0, datas |-> <<>>]

\* display_error_info lines 998-1013: GetError gives the entries, or
\* GetErrorID is asked too and gives them, or gives none; with no dashboard
\* client both attempts raise and nothing is sent
display_error_info(answer) ==
    /\ wire' = IF client_dash = 0 THEN wire
               ELSE IF answer = "errMsg"
               THEN Append(wire, OtherCall("display_error_info", "GetError"))
               ELSE wire \o <<OtherCall("display_error_info", "GetError"),
                              OtherCall("display_error_info", "GetErrorID")>>
    /\ text_err' = IF client_dash = 0 \/ answer = "none" THEN text_err
                   ELSE text_err + 1

\* display_error_info called without the test of line 992
FB_Error_AnyMode(t) ==
    /\ uth[t].pc = "error"
    /\ \E answer \in {"errMsg", "errorID", "none"} : display_error_info(answer)
    /\ uth' = [uth EXCEPT ![t].pc = "top", ![t].no = 0]
    /\ UNCHANGED <<uiConnVars, recvs, label, latest_joints, latest_tcp>>
    /\ UNCHANGED <<ModbusIndex, write_lock, gth, gripCalls>>
    /\ UNCHANGED notUiVars

\* line 992 and display_error_info
FB_Error(t) ==
    /\ uth[t].pc = "error"
    /\ IF uth[t].data.frame.RobotMode = ROBOT_MODE_ERROR
       THEN \E answer \in {"errMsg", "errorID", "none"} : display_error_info(answer)
       ELSE UNCHANGED <<text_err, wire>>
    /\ uth' = [uth EXCEPT ![t].pc = "top", ![t].no = 0]
    /\ UNCHANGED <<uiConnVars, recvs, label, latest_joints, latest_tcp>>
    /\ UNCHANGED <<ModbusIndex, write_lock, gth, gripCalls>>
    /\ UNCHANGED notUiVars

\* lines 993-994
FB_Sleep(t) ==
    /\ uth[t].pc = "sleep"
    /\ FB_Goto(t, "top")

FB_Read(t) ==
    \/ FB_Top(t) \/ FB_SetBlocking(t) \/ FB_Recv(t) \/ FB_Recv2(t)
    \/ FB_Slice(t) \/ FB_Check(t) \/ FB_Sleep(t)

FB_Publish(t) ==
    \/ FB_Speed(t) \/ FB_Mode(t) \/ FB_DigitalInputs(t)
    \/ FB_DigitalOutputs(t) \/ FB_Joints(t) \/ FB_Coords(t)
    \/ FB_CacheJoints(t) \/ FB_CacheTcp(t) \/ FB_Error(t)

feed_back(t) == FB_Read(t) \/ FB_Publish(t)

-----------------------------------------------------------------------------
(* ui.py: RobotUI without the gripper; feed_back has no try block *)

\* connect_port lines 664-684 of ui.py: both clients are made; a constructor
\* may raise, and the handler then returns
UiPy_Connect_Open ==
    /\ mainPc = "idle" /\ ~connect /\ clicks < MaxClicks
    /\ clicks' = clicks + 1
    /\ \/ \* DobotApiDashboard(...) raises
          UNCHANGED <<client_dash, client_feed, mainPc>>
       \/ \* DobotApiFeedBack(...) raises
          /\ client_dash' = clicks + 1
          /\ UNCHANGED <<client_feed, mainPc>>
       \/ /\ client_dash' = clicks + 1 /\ client_feed' = clicks + 1
          /\ mainPc' = "py_toggle"
    /\ UNCHANGED <<connect, epick, uth, recvs, uiPub>>
    /\ UNCHANGED <<gripVars, notUiVars>>

\* connect_port lines 641-663 of ui.py: both clients are closed and dropped
UiPy_Connect_Close ==
    /\ mainPc = "idle" /\ connect /\ clicks < MaxClicks
    /\ clicks' = clicks + 1
    /\ client_dash' = 0 /\ client_feed' = 0
    /\ mainPc' = "py_toggle"
    /\ UNCHANGED <<connect, epick, uth, recvs, uiPub>>
    /\ UNCHANGED <<gripVars, notUiVars>>

\* connect_port lines 686-688 of ui.py and set_feed_back (690-699)
UiPy_Connect_Toggle ==
    /\ mainPc = "py_toggle"
    /\ mainPc' = "idle"
    /\ connect' = ~connect
    /\ uth' = IF ~connect
              THEN [uth EXCEPT ![clicks] = [pc |-> "py_top", temp |-> NoBytes,
                                           data |-> NoBytes, no |-> 0]]
              ELSE uth
    /\ UNCHANGED <<client_dash, client_feed, epick, clicks, recvs, uiPub>>
    /\ UNCHANGED <<gripVars, notUiVars>>

\* ui.py line 906
UiPy_Top(t) ==
    /\ uth[t].pc = "py_top"
    /\ FB_Goto(t, IF ~connect THEN "py_exited" ELSE "py_setblocking")

\* ui.py lines 910-912; with no client the thread ends with the exception
UiPy_SetBlocking(t) ==
    /\ uth[t].pc = "py_setblocking"
    /\ uth' = IF client_feed = 0
              THEN [uth EXCEPT ![t].pc = "py_raised"]
              ELSE [uth EXCEPT ![t].pc = "py_recv", ![t].data = NoBytes]
    /\ UNCHANGED <<uiConnVars, recvs, uiPub>>
    /\ UNCHANGED <<gripVars, notUiVars>>

\* a recv(144000) of ui.py lines 914 and 917: bytes arrive, or the call
\* raises; nothing catches the exception and the thread ends with it
UiPy_RecvAt(t, pc) ==
    /\ uth[t].pc = pc
    /\ IF client_feed = 0
       THEN uth' = [uth EXCEPT ![t].pc = "py_raised", ![t].no = 0] /\ UNCHANGED recvs
       ELSE /\ recvs < MaxRecvs
            /\ recvs' = recvs + 1
            /\ \/ uth' = [uth EXCEPT ![t].pc = "py_raised", ![t].no = 0]
               \/ \E c \in UiChunks :
                     uth' = [uth EXCEPT ![t].temp = c, ![t].no = recvs + 1,
                                        ![t].pc = IF pc = "py_recv" /\ c.n > FRAME_LEN
                                                  THEN "py_recv2" ELSE "py_decode"]
    /\ UNCHANGED <<uiConnVars, uiPub>>
    /\ UNCHANGED <<gripVars, notUiVars>>

\* ui.py lines 919-923: temp[0:1440], then np.frombuffer, which raises
\* ValueError on a buffer that is no whole number of 1440-byte records
UiPy_Decode(t) ==
    /\ uth[t].pc = "py_decode"
    /\ uth' = [uth EXCEPT ![t].data = Slice(uth[t].temp),
                          ![t].pc = IF Slice(uth[t].temp).n < FRAME_LEN
                                    THEN "py_raised" ELSE "py_check",
                          ![t].no = IF Slice(uth[t].temp).n < FRAME_LEN
                                    THEN 0 ELSE @]
    /\ UNCHANGED <<uiConnVars, recvs, uiPub>>
    /\ UNCHANGED <<gripVars, notUiVars>>

\* ui.py line 929
UiPy_Check(t) ==
    /\ uth[t].pc = "py_check"
    /\ FB_Goto(t, IF TestValueOk(uth[t].data.frame) THEN "py_speed" ELSE "py_top")

\* ui.py line 938: a mode that is no key of LABEL_ROBOT_MODE raises KeyError
UiPy_Mode(t) ==
    IF uth[t].data.n = FRAME_LEN
         /\ uth[t].data.frame.RobotMode \in LABEL_ROBOT_MODE_KEYS
    THEN FB_Set(t, "py_mode",
                [label EXCEPT !.mode = LABEL_ROBOT_MODE(uth[t].data.frame.RobotMode)],
                latest_joints, latest_tcp, "py_di")
    ELSE uth[t].pc = "py_mode" /\ FB_Goto(t, "py_raised")

\* the other label assignments of ui.py: lines 936, 940-941, 943-944, 947
\* and 949-958 (the line written to the log box is not kept)
UiPy_Labels(t) ==
    \/ FB_Set(t, "py_speed",
              [label EXCEPT !.speed = <<uth[t].data.frame.SpeedScaling>>],
              latest_joints, latest_tcp, "py_mode")
    \/ FB_Set(t, "py_di",
              [label EXCEPT !.di = BitsLabel(uth[t].data.frame.DigitalInputs)],
              latest_joints, latest_tcp, "py_do")
    \/ FB_Set(t, "py_do",
              [label EXCEPT !.do = BitsLabel(uth[t].data.frame.DigitalOutputs)],
              latest_joints, latest_tcp, "py_joints")
    \/ FB_Set(t, "py_joints",
              [label EXCEPT !.joints = set_feed_joint(uth[t].data.frame.QActual)],
              latest_joints, latest_tcp, "py_coords")
    \/ FB_Set(t, "py_coords",
              [label EXCEPT !.coords = set_feed_joint(uth[t].data.frame.ToolVectorActual)],
              latest_joints, latest_tcp, "py_error")

\* ui.py lines 961-962 and display_error_info
UiPy_Error(t) ==
    /\ uth[t].pc = "py_error"
    /\ IF uth[t].data.frame.RobotMode = ROBOT_MODE_ERROR
       THEN \E answer \in {"errMsg", "errorID", "none"} : display_error_info(answer)
       ELSE UNCHANGED <<text_err, wire>>
    /\ uth' = [uth EXCEPT ![t].pc = "py_top", ![t].no = 0]
    /\ UNCHANGED <<uiConnVars, recvs, label, latest_joints, latest_tcp>>
    /\ UNCHANGED <<ModbusIndex, write_lock, gth, gripCalls>>
    /\ UNCHANGED notUiVars

\* feed_back of ui.py, lines 902-962
UiPy_feed_back(t) ==
    \/ UiPy_Top(t) \/ UiPy_SetBlocking(t)
    \/ UiPy_RecvAt(t, "py_recv") \/ UiPy_RecvAt(t, "py_recv2")
    \/ UiPy_Decode(t) \/ UiPy_Check(t)
    \/ UiPy_Labels(t) \/ UiPy_Mode(t) \/ UiPy_Error(t)

RecThreads == 1..MaxRecords

\* RobotUI.__init__ lines 177-179: nothing is recorded; writer is 0 for None
\* and else the number of the open file
RecIdle ==
    [running |-> FALSE, stop |-> FALSE, writer |-> 0, files |-> 0,
     after |-> "none", th |-> [t \in RecThreads |-> "unborn"], rows |-> {}]

\* start_record (lines 598-658), from toggle_record: the next demo_N.csv is
\* opened, the event is cleared and a record_loop thread is started
Rec_Start ==
    /\ mainPc = "idle" /\ connect /\ ~rec.running /\ rec.files < MaxRecords
    /\ rec' = [rec EXCEPT !.files = rec.files + 1, !.writer = rec.files + 1,
                          !.stop = FALSE, !.running = TRUE,
                          !.th[rec.files + 1] = "test"]
    /\ UNCHANGED uiVars
    /\ UNCHANGED notRecVars

\* stop_record lines 661-665, called by toggle_record (it returns to the
\* main loop) or by connect_port on a Disconnect click (line 465)
Rec_StopBegin(after) ==
    /\ mainPc = "idle" /\ rec.running
    /\ after = "closing" => (connect /\ clicks < MaxClicks)
    /\ rec' = [rec EXCEPT !.stop = TRUE, !.running = FALSE, !.after = after]
    /\ mainPc' = "join"
    /\ UNCHANGED <<connect, client_dash, client_feed, epick, clicks, uth,
                   recvs, uiPub>>
    /\ UNCHANGED notRecVars

\* the record_loop thread started last
LastRecThread == rec.files

\* stop_record lines 668-708: join(timeout=1.0) returns when the thread has
\* ended, or after one second while the thread still waits for the reply
\* of GetForce; then the file is closed and the handles are set to None
Rec_StopEnd ==
    /\ mainPc = "join"
    /\ rec.th[LastRecThread] \in {"exited", "getforce"}
    /\ rec' = [rec EXCEPT !.writer = 0, !.after = "none"]
    /\ mainPc' = rec.after
    /\ UNCHANGED <<connect, client_dash, client_feed, epick, clicks, uth,
                   recvs, uiPub>>
    /\ UNCHANGED notRecVars

\* record_loop line 713
RecLoop_Test(t) ==
    /\ rec.th[t] = "test"
    /\ rec' = [rec EXCEPT !.th[t] = IF rec.stop \/ ~connect
                                     THEN "exited" ELSE "getforce"]
    /\ UNCHANGED uiVars
    /\ UNCHANGED notRecVars

\* record_loop lines 714-725: GetForce returns or raises
RecLoop_GetForce(t) ==
    /\ rec.th[t] = "getforce"
    /\ rec' = [rec EXCEPT !.th[t] = "write"]
    /\ UNCHANGED uiVars
    /\ UNCHANGED notRecVars

\* record_loop lines 727-748: a row goes to the writer that is there now
\* (none when it is None), or writing raises and the loop ends; then the
\* sleep to the next tick
RecLoop_Write(t) ==
    /\ rec.th[t] = "write"
    /\ \/ rec' = [rec EXCEPT !.th[t] = "test",
                             !.rows = IF rec.writer = 0 THEN @
                                      ELSE @ \cup {<<t, rec.writer>>}]
       \/ /\ rec.writer # 0
          /\ rec' = [rec EXCEPT !.th[t] = "exited", !.stop = TRUE]
    /\ UNCHANGED uiVars
    /\ UNCHANGED notRecVars

record_loop(t) == RecLoop_Test(t) \/ RecLoop_GetForce(t) \/ RecLoop_Write(t)

\* RobotUI.__init__
UiIdle ==
    /\ connect = FALSE /\ client_dash = 0 /\ client_feed = 0
    /\ epick = FALSE /\ mainPc = "idle" /\ clicks = 0
    /\ uth = [t \in UiThreads |-> Unborn]
    /\ recvs = 0
    /\ label = [speed |-> <<>>, mode |-> "", di |-> <<>>, do |-> <<>>,
                joints |-> <<>>, coords |-> <<>>]
    /\ latest_joints = <<0, 0, 0, 0, 0, 0>>
    /\ latest_tcp = <<0, 0, 0, 0, 0, 0>>
    /\ text_err = 0
    /\ rec = RecIdle

UiNext == connect_port \/ \E t \in UiThreads : feed_back(t)

\* epick_init, epick_grip and epick_release (lines 432-458): a gripper
\* button is pressed; the Tk main thread, thread 1 of the gripper, runs the
\* method
Ui_EpickButton ==
    /\ epick
    /\ \/ Epick_Call(1, "init", NoArgs)
       \/ \E a \in GripArgs : Epick_Call(1, "grip", a)
       \/ Epick_Call(1, "release", NoArgs)

\* the gripper buttons pressed while the feed_back threads run
ChannelNext ==
    \/ Ui_EpickButton
    \/ write_by_485(1) \/ Epick_Continue(1) \/ Release_Sleep(1)
    \/ \E t \in UiThreads : feed_back(t)

\* RobotUI after a first Connect click that succeeded: the clients and the
\* gripper session exist and the first feed_back thread runs; clicks are
\* counted from here
UiConnected ==
    /\ connect = TRUE /\ client_dash = 1 /\ client_feed = 1
    /\ epick = TRUE /\ mainPc = "idle" /\ clicks = 0
    /\ uth = [t \in UiThreads |->
                IF t = 1 THEN [pc |-> "top", temp |-> NoBytes, data |-> NoBytes,
                               no |-> 0]
                ELSE Unborn]
    /\ recvs = 0
    /\ label = [speed |-> <<>>, mode |-> "", di |-> <<>>, do |-> <<>>,
                joints |-> <<>>, coords |-> <<>>]
    /\ latest_joints = <<0, 0, 0, 0, 0, 0>>
    /\ latest_tcp = <<0, 0, 0, 0, 0, 0>>
    /\ text_err = 0
    /\ rec = RecIdle
    /\ ModbusIndex = <<1>> /\ write_lock = 0
    /\ gth = [t \in GripThreads |-> IdleThread]
    /\ gripCalls = 0 /\ wire = <<>>

-----------------------------------------------------------------------------

DemoInit ==
    /\ startPc = "init"
    /\ enableRecv = NoText
    /\ feedStarted = FALSE
    /\ feedPc = "recv"
    /\ feedInfo = NoFrame
    /\ globalLock = None
    /\ feedData = InitFeedData
    /\ frameNo = 0
    /\ fieldSrc = [robotMode |-> 0, robotCurrentCommandID |-> 0]
    /\ runPc = "idle"
    /\ recvmovemess = NoText
    /\ currentCommandID = Unassigned
    /\ printed = <<>>
    /\ rdSrc = NoRead
    /\ held = FALSE
    /\ dashCalls = <<>>

Init == DemoInit /\ ReplayIdle /\ GripIdle /\ UiIdle /\ EncIdle /\ WaitIdle

\* DobotDemo with its feed thread and one RunPoint caller
Next ==
    \/ \E r \in DemoReplies : Start_EnableRobot(r)
    \/ Start_Check
    \/ GetFeed
    \/ \E r \in DemoReplies : RunPoint_Send(r)
    \/ RunPoint_Poll

Spec == Init /\ [][Next]_vars

\* the threads are scheduled fairly; the controller need not send frames
FairSpec == Spec /\ WF_vars(RunPoint_Poll) /\ WF_vars(GetFeed_Process)

\* the reply handling of start() and RunPoint on every reply text
ParseNext ==
    \/ \E r \in Replies : Start_EnableRobot(r)
    \/ Start_Check
    \/ \E r \in Replies : RunPoint_Send(r)

ParseSpec == Init /\ [][ParseNext]_vars

\* one run of replay_trajectory.main
ReplayStart == DemoInit /\ ReplayInit /\ GripIdle /\ UiIdle /\ EncIdle /\ WaitIdle

GripStart == DemoInit /\ ReplayIdle /\ GripInit /\ UiIdle /\ EncIdle /\ WaitIdle

\* two threads calling the methods of one RobotiqEpick
GripSpec == GripStart /\ [][GripNext]_vars

\* DobotDemo is started; no RobotUI runs in its process
Demo_Start(r) == UiIdle /\ Start_EnableRobot(r)

\* RobotUI is used; no DobotDemo runs in its process
Ui_Start == DemoInit /\ Ui_Connect_OpenOk

\* the register encoders called with every field list and argument tried
EncodeSpec == Init /\ [][EncodeNext]_vars

\* the methods of one RobotiqEpick called by a thread, its session being
\* opened and closed by another while they run
SessionNext ==
    \/ Epick_Call(1, "init", NoArgs)
    \/ \E a \in GripArgs : Epick_Call(1, "grip", a)
    \/ Epick_Call(1, "release", NoArgs)
    \/ write_by_485(1)
    \/ Epick_Continue(1)
    \/ Release_Sleep(1)
    \/ \E response \in CreateReplies : Epick_Create(2, response)
    \/ Epick_Close(2)

SessionSpec == GripStart /\ [][SessionNext]_vars

\* RobotUI: the Connect button and the feed_back threads, with a controller
\* that creates the gripper session when asked
UiFeedNext ==
    \/ Ui_Connect_OpenOk \/ Ui_Connect_Close \/ Ui_Connect_Toggle
    \/ \E t \in UiThreads : feed_back(t)

UiSpec == Init /\ [][UiFeedNext]_vars

\* a handler that has begun runs to its end, and the feed_back threads are
\* not all held up for ever while one of them can run
UiFairSpec ==
    /\ UiSpec
    /\ WF_vars(Ui_Connect_Toggle)
    /\ WF_vars(\E t \in UiThreads : feed_back(t))

ReconnectStart == DemoInit /\ ReplayIdle /\ UiConnected /\ EncIdle /\ WaitIdle

\* RobotUI from a connected state: Disconnect and Connect clicks while the
\* feed_back threads run
ReconnectSpec == ReconnectStart /\ [][UiFeedNext]_vars

\* RobotUI from a connected state: the gripper buttons and the feed_back
\* thread use the one dashboard client
ChannelSpec == ReconnectStart /\ [][ChannelNext]_vars

\* the two programs that read the telemetry port, each in its own process:
\* DobotDemo.start with its GetFeed thread, or RobotUI with its feed_back
\* threads
FeedNext ==
    \/ \E r \in DemoReplies : Demo_Start(r)
    \/ Start_Check
    \/ GetFeed
    \/ Ui_Start
    \/ Ui_Connect_Close \/ Ui_Connect_Toggle
    \/ \E t \in UiThreads : feed_back(t)

FeedSpec == Init /\ [][FeedNext]_vars

\* the places of ui.py's feed_back
UiPyPcs ==
    {"py_top", "py_setblocking", "py_recv", "py_recv2", "py_decode",
     "py_check", "py_speed", "py_mode", "py_di", "py_do", "py_joints",
     "py_coords", "py_error", "py_exited", "py_raised"}

\* a click on Connect or Disconnect while ui.py is the program that runs:
\* there is no gripper object, and every thread that was started runs
\* ui.py's feed_back
UiPy_Click ==
    /\ ~epick /\ \A t \in UiThreads : uth[t].pc \in UiPyPcs \cup {"unborn"}
    /\ (UiPy_Connect_Open \/ UiPy_Connect_Close)

\* the same click while ui_epick_control.py is the program that runs
UiEpick_Click ==
    /\ \A t \in UiThreads : uth[t].pc \notin UiPyPcs
    /\ (Ui_Connect_OpenOk \/ (epick /\ Ui_Connect_Close))

\* the two RobotUI programs, one of them running: ui.py or
\* ui_epick_control.py, with Connect and Disconnect clicks and the feed_back
\* threads
VariantsNext ==
    \/ UiPy_Click \/ UiPy_Connect_Toggle
    \/ \E t \in UiThreads : UiPy_feed_back(t)
    \/ UiEpick_Click \/ Ui_Connect_Toggle
    \/ \E t \in UiThreads : feed_back(t)

VariantsSpec == Init /\ [][VariantsNext]_vars

ReplaySpec == ReplayStart /\ [][ReplayNext]_vars

\* RobotUI from a connected state: the Record button, the Connect button
\* and the record_loop threads
RecordNext ==
    \/ Rec_Start \/ Rec_StopBegin("idle")
    \/ Rec_StopBegin("closing")
    \/ Rec_StopEnd
    \/ Ui_Connect_OpenOk \/ Ui_Connect_Close \/ Ui_Connect_Toggle
    \/ \E t \in RecThreads : record_loop(t)

RecordSpec == ReconnectStart /\ [][RecordNext]_vars

WaitStart == DemoInit /\ ReplayIdle /\ GripIdle /\ UiIdle /\ EncIdle /\ WaitInit

\* one call of _wait_until_near_pose; a thread that can run does run
WaitSpec == WaitStart /\ [][WaitNext]_vars /\ WF_vars(WaitNext)

-----------------------------------------------------------------------------
(* The integers of a text, stated without the scan: every maximal run of   *)
(* digits is one integer, negative when a "-" stands right before it.      *)

RunStarts(s) ==
    {i \in 1..Len(s) : IsDigit(s[i]) /\ (i = 1 \/ ~IsDigit(s[i - 1]))}

RunLast(s, i) ==
    CHOOSE j \in i..Len(s) :
        /\ \A k \in i..j : IsDigit(s[k])
        /\ j = Len(s) \/ ~IsDigit(s[j + 1])

RECURSIVE Pow10(_)
Pow10(n) == IF n = 0 THEN 1 ELSE 10 * Pow10(n - 1)

RECURSIVE PlaceSum(_, _, _)
PlaceSum(s, i, j) ==
    IF i > j THEN 0 ELSE DigitVal(s[i]) * Pow10(j - i) + PlaceSum(s, i + 1, j)

RunValue(s, i) ==
    LET v == PlaceSum(s, i, RunLast(s, i))
    IN  IF i > 1 /\ s[i - 1] = "-" THEN 0 - v ELSE v

IntegersOf(s) ==
    LET starts == RunStarts(s)
        nth(k) == CHOOSE i \in starts : Cardinality({j \in starts : j < i}) = k - 1
    IN  [k \in 1..Cardinality(starts) |-> RunValue(s, nth(k))]

HasInteger(s) == \E i \in 1..Len(s) : IsDigit(s[i])

HasMarker(s) == \E i \in 1..Len(s) : i + 6 <= Len(s) /\
    <<s[i], s[i+1], s[i+2], s[i+3], s[i+4], s[i+5], s[i+6]>> = NotTcp

-----------------------------------------------------------------------------
(* Claims *)

\* C1: no reader observes a mix of fields from two frames: the robotMode and
\* the robotCurrentCommandID that one evaluation of RunPoint's completion
\* condition reads come from the same telemetry frame.
C1_NoTornRead ==
    (rdSrc.mode >= 1 /\ rdSrc.id >= 1) => rdSrc.mode = rdSrc.id

\* C3: the completion wait returns success only if, at some instant of the
\* poll that returned, the published telemetry had robotMode = 5 and
\* robotCurrentCommandID = the command id parsed from the reply.
C3_SuccessOnlyIfCompleted == runPc = "done" => held

\* C4: the completion wait eventually ends, with success or with a timeout.
C4_WaitTerminates ==
    [](runPc = "poll" => <>(runPc \in {"done", "timeout"}))

\* C6: a negative result code as the first integer of the MovJ reply
\* short-circuits RunPoint: the polling loop is not entered and Stop is sent.
C6_RejectionShortCircuits ==
    (runPc # "idle" /\ printed[1] < 0) =>
        /\ runPc \notin {"poll", "poll_id", "sleep", "done"}
        /\ \E k \in 1..Len(dashCalls) : dashCalls[k] = "Stop"

\* C8: a reply that contains "Not Tcp" yields the wrong-control-mode outcome
\* [1], whatever digits it holds, and no command id is taken from it.
C8_MarkerYieldsWrongMode ==
    (runPc # "idle" /\ HasMarker(recvmovemess)) =>
        /\ printed = <<1>>
        /\ runPc = "raised"
        /\ currentCommandID = Unassigned

C8_Witness ==
    /\ runPc = "raised"
    /\ recvmovemess = <<"4">> \o NotTcp \o <<"0">>
    /\ printed = <<1>>

\* C9: a reply without the marker that holds an integer is parsed into all
\* its integers, signs kept, in order of appearance; RunPoint takes the second
\* as the command id; "0,17" gives status 0 and command id 17.
C9_IntegersInOrder ==
    (runPc # "idle" /\ ~HasMarker(recvmovemess) /\ HasInteger(recvmovemess)) =>
        /\ printed = IntegersOf(recvmovemess)
        /\ Len(printed) >= 2 => runPc = "poll" /\ currentCommandID = printed[2]
        /\ recvmovemess = T_0_17 => printed = <<0, 17>> /\ currentCommandID = 17

C9_Witness ==
    /\ runPc = "poll"
    /\ recvmovemess = T_m1_42
    /\ printed = <<0 - 1, 42>>
    /\ currentCommandID = 42

\* C10: a reply with neither the marker nor an integer (the empty reply
\* included) is parsed into the generic failure [2], and start() treats it as
\* an enable failure: it returns without starting the feed thread.
C10_NoIntegerIsGenericFailure ==
    /\ []((runPc # "idle" /\ ~HasMarker(recvmovemess) /\ ~HasInteger(recvmovemess))
            => printed = <<2>>)
    /\ [][(startPc = "enable_sent" /\ startPc' # startPc
            /\ ~HasMarker(enableRecv) /\ ~HasInteger(enableRecv))
            => (startPc' = "returned" /\ ~feedStarted')]_vars

C10_Witness ==
    /\ startPc = "returned" /\ ~feedStarted
    /\ runPc = "raised"
    /\ recvmovemess = T_Garbage
    /\ printed = <<2>>

\* C7: in trajectory replay, as soon as a MovL reply has a negative first
\* integer, Stop is sent, no MovL follows, and main returns 1, not 0.
C7_RejectionStopsReplay ==
    (rpReply # NoText /\ HasInteger(rpReply) /\ IntegersOf(rpReply)[1] < 0) =>
        /\ rpPc = "returned" /\ rpRet = 1
        /\ Len(rpCalls) >= 3
        /\ rpCalls[Len(rpCalls) - 2].cmd = "MovL"
        /\ rpCalls[Len(rpCalls) - 2].idx = rpIdx
        /\ rpCalls[Len(rpCalls) - 1].cmd = "Stop"
        /\ rpCalls[Len(rpCalls)].cmd = "close"

C7_Witness ==
    /\ rpReply = T_m1_42 /\ rpIdx = STEP /\ rpRet = 1
    /\ \E k \in 1..Len(rpCalls) : rpCalls[k].cmd = "Stop"

\* the SetHoldRegs calls on the wire, in order
HoldRegsCalls == SelectSeq(wire, LAMBDA c : c.cmd = "SetHoldRegs")

\* C2: when grip() and release() run concurrently, the register writes the
\* transport sees are not interleaved: no write of one of them lies between
\* two writes of the other.
C2_WritesNotInterleaved ==
    LET h == HoldRegsCalls
    IN  \A i, j, k \in 1..Len(h) :
            (i < j /\ j < k /\ h[i].call = h[k].call
               /\ {h[i].op, h[j].op} = {"grip", "release"})
            => h[j].call = h[i].call

\* the iteration of feed_back thread t holds a frame with the right TestValue
UiFrameIsValid(t) ==
    uth[t].data.n = FRAME_LEN /\ uth[t].data.frame.TestValue = Magic

\* C5: an iteration of a feed loop that read no frame, or a frame whose
\* TestValue is not 0x0123456789ABCDEF, changes nothing that is published:
\* no step of GetFeed changes feedData while it holds such a frame, and no
\* step of a feed_back thread changes the labels, the cached joints and pose
\* or the error box while its iteration holds such a frame.
C5_InvalidFramePublishesNothing ==
    [][ /\ (feedInfo = NoFrame \/ feedInfo.TestValue # Magic)
            => feedData' = feedData
        /\ \A t \in UiThreads :
              (uth'[t] # uth[t] /\ uth[t].pc # "unborn" /\ ~UiFrameIsValid(t))
              => UNCHANGED uiPub ]_vars

\* a feed_back iteration is over that read a whole frame with a wrong
\* TestValue after an earlier frame was published
C5_Witness ==
    \E t \in UiThreads :
        /\ uth[t].pc = "top"
        /\ uth[t].data.n = FRAME_LEN
        /\ uth[t].data.frame.TestValue # Magic
        /\ label.mode = "ROBOT_MODE_ENABLE"
        /\ latest_tcp[2] = 123460

\* the register writes (address, values) that call number c put on the wire
WritesOfCall(c) ==
    LET h == SelectSeq(wire, LAMBDA e : e.cmd = "SetHoldRegs" /\ e.call = c)
    IN  [k \in 1..Len(h) |-> <<h[k].address, h[k].datas>>]

IsPrefix(s, t) == Len(s) <= Len(t) /\ s = SubSeq(t, 1, Len(s))

\* thread t runs, or has last run, method op on an open session
RunsOnSession(t, op) == gth[t].op = op /\ ModbusIndex # <<>>

\* thread t has returned from method op, called on an open session
Returned(t, op) == RunsOnSession(t, op) /\ gth[t].pc = "idle"

\* C11: init() on an open session writes the fault-clear-and-hold word 512
\* with the release threshold 255 to address 0x03E8 (1000), then the
\* enable-and-hold word 768, also to address 1000; at every moment what it
\* has written is a prefix of these two writes, and once it has returned it
\* has written exactly both.
C11_InitClearsThenEnables ==
    \A t \in GripThreads :
        RunsOnSession(t, "init") =>
            LET w == WritesOfCall(gth[t].call)
                expected == << <<1000, <<512, 255>> >>, <<1000, <<768, 255>> >> >>
            IN  /\ IsPrefix(w, expected)
                /\ gth[t].pc = "idle" => w = expected

\* an init() on an open session has returned
C11_Witness ==
    \E t \in GripThreads :
        Returned(t, "init") /\ Len(WritesOfCall(gth[t].call)) = 2

\* the four writes a grip(max_v, min_v, timeout) is to make: fault-clear 512,
\* enable-and-hold 768, the two parameter registers at address 1001, and
\* controlled-and-enabled 2816
GripExpected(a) ==
    << <<1000, <<512>> >>,
       <<1000, <<768>> >>,
       <<1001, <<100 - a.max_v,
                 ((a.timeout + 99) \div 100) * 256 + (100 - a.min_v)>> >>,
       <<1000, <<2816>> >> >>

\* C12: a grip() on an open session writes, in this order, the fault-clear
\* word, the enable-and-hold word, the two parameter registers at the action
\* address + 1 and the controlled-and-enabled word; what it has written is
\* always a prefix of these four writes, and a grip() that has returned a
\* result has written exactly the four.
C12_GripWritesFourInOrder ==
    \A t \in GripThreads :
        RunsOnSession(t, "grip") =>
            LET w == WritesOfCall(gth[t].call)
            IN  /\ IsPrefix(w, GripExpected(gth[t].args))
                /\ (gth[t].pc = "idle" /\ gth[t].ret # "ValueError")
                     => w = GripExpected(gth[t].args)

\* a grip(60, 40, 250) on an open session has returned a result
C12_Witness ==
    \E t \in GripThreads :
        /\ Returned(t, "grip") /\ gth[t].ret # "ValueError"
        /\ WritesOfCall(gth[t].call)[3] = <<1001, <<40, 828>> >>

\* the GTO and ACT bits of an action word
GTO_Bit(word) == (word \div 2048) % 2
ACT_Bit(word) == (word \div 256) % 2

\* C13: a release() on an open session writes to address 1000 the
\* fault-clear word 512, then the controlled-and-enabled word 2816 with the
\* release threshold 255, and, only after its settle delay, the
\* hold-and-enabled word 768; what it has written is always a prefix of
\* these three, during the delay it has written exactly the first two, and
\* once it has returned the last word it wrote has GTO = 0 and ACT = 1.
C13_ReleaseEndsInHold ==
    \A t \in GripThreads :
        RunsOnSession(t, "release") =>
            LET w == WritesOfCall(gth[t].call)
                expected == << <<1000, <<512>> >>, <<1000, <<2816, 255>> >>,
                               <<1000, <<768>> >> >>
            IN  /\ IsPrefix(w, expected)
                /\ gth[t].pc = "r_sleep" => Len(w) = 2
                /\ gth[t].pc = "idle" =>
                      /\ w = expected
                      /\ GTO_Bit(w[Len(w)][2][1]) = 0
                      /\ ACT_Bit(w[Len(w)][2][1]) = 1

\* a release() on an open session has returned
C13_Witness ==
    \E t \in GripThreads :
        Returned(t, "release") /\ Len(WritesOfCall(gth[t].call)) = 3

\* thread t is inside the with-block of write_by_485
InCritical(t) == gth[t].pc \in {"w_settool", "w_sethold", "w_settle"}

\* C14: at most one thread is inside the with-block of write_by_485, and it
\* holds write_lock until its settle delay is over: on the wire every
\* SetTool485 is followed directly by the SetHoldRegs of the same caller,
\* and while a caller is between its SetTool485 and the end of its settle
\* delay its own call is the last one on the wire.
C14_WriteIsExclusive ==
    /\ \A t, u \in GripThreads : (InCritical(t) /\ InCritical(u)) => t = u
    /\ \A t \in GripThreads : InCritical(t) => write_lock = t
    /\ \A i \in 1..Len(wire) :
          (wire[i].cmd = "SetTool485" /\ i < Len(wire))
          => (wire[i + 1].cmd = "SetHoldRegs" /\ wire[i + 1].call = wire[i].call)
    /\ \A t \in GripThreads :
          /\ gth[t].pc = "w_sethold"
               => (wire[Len(wire)].cmd = "SetTool485"
                   /\ wire[Len(wire)].call = gth[t].call)
          /\ gth[t].pc = "w_settle"
               => (wire[Len(wire)].cmd = "SetHoldRegs"
                   /\ wire[Len(wire)].call = gth[t].call)

\* one caller is in its settle delay while another waits for the lock
C14_Witness ==
    \E t, u \in GripThreads :
        /\ t # u
        /\ gth[t].pc = "w_settle" /\ write_lock = t
        /\ gth[u].pc = "w_lock"

\* C15: a write_by_485 that finds no session (ModbusIndex is None at the
\* test of line 82) returns the error text, raises nothing, sends neither
\* SetTool485 nor SetHoldRegs and leaves ModbusIndex None.
C15_NoSessionNoWrite ==
    [][ \A t \in GripThreads :
          (gth[t].pc = "w_check" /\ ModbusIndex = <<>> /\ gth'[t] # gth[t])
          => /\ gth'[t].pc = "w_done"
             /\ gth'[t].ret = "Error: No Modbus Index"
             /\ wire' = wire
             /\ write_lock' = write_lock
             /\ ModbusIndex' = <<>> ]_vars

\* a release() called on an object that has no session has returned the
\* error result of its last write, and nothing was sent
C15_Witness ==
    \E t \in GripThreads :
        /\ gth[t].op = "release" /\ gth[t].pc = "idle" /\ gth[t].call = 2
        /\ gth[t].ret = "Error: No Modbus Index"
        /\ ModbusIndex = <<>> /\ wire = <<>>

\* the number a field's binary digits stand for
FieldValue(f) == IF Len(f) = 1 THEN (IF f[1] = "1" THEN 1 ELSE 0)
                 ELSE 2 * (IF f[1] = "1" THEN 1 ELSE 0) + (IF f[2] = "1" THEN 1 ELSE 0)

\* C16: for every ATR, GTO, MOD and ACT the action word is
\* (ATR*16 + GTO*8 + MOD*2 + ACT) * 256, a value in 0..65535 with a zero
\* low byte, whatever was encoded before.
C16_ActionWordIsBitExact ==
    encIn.kind = "ACTION" =>
        LET x == encIn.x
            word == encOut[1]
        IN  /\ Len(encOut) = 1
            /\ word = (FieldValue(x[1]) * 16 + FieldValue(x[2]) * 8
                         + FieldValue(x[3]) * 2 + FieldValue(x[4])) * 256
            /\ word \in 0..65535
            /\ word % 256 = 0

\* the fault-clear-and-hold word was encoded as the second call
C16_Witness ==
    /\ encCalls = 2
    /\ encIn.kind = "ACTION"
    /\ encIn.x = << <<"0">>, <<"0">>, <<"0", "1">>, <<"0">> >>
    /\ encOut = <<512>>

\* C17: for max_v and min_v in 0..100 and every timeout >= 0 both parameter
\* registers of grip are 16-bit values: the first is 100 - max_v, the second
\* has ceil(timeout/100) in its high byte and 100 - min_v in its low byte.
C17_ParamsFitRegisters ==
    (encIn.kind = "PARAMS" /\ encIn.a.max_v \in 0..100
        /\ encIn.a.min_v \in 0..100 /\ encIn.a.timeout >= 0)
    => /\ Len(encOut) = 2
       /\ encOut[1] \in 0..65535 /\ encOut[2] \in 0..65535
       /\ encOut[1] = 100 - encIn.a.max_v
       /\ encOut[2] \div 256 = (encIn.a.timeout + 99) \div 100
       /\ encOut[2] % 256 = 100 - encIn.a.min_v

\* feed_back thread t was started and has not ended
Alive(t) == uth[t].pc \notin {"unborn", "exited", "died"}

\* thread t waits in recv on an open socket for bytes that do not come
WaitsForBytes(t) ==
    uth[t].pc \in {"recv", "recv2"} /\ client_feed # 0 /\ recvs = MaxRecvs

\* C18: feed_back tests the connect flag at the top of every iteration: a
\* thread that makes the test while the flag is cleared exits and publishes
\* nothing, a thread that has ended does nothing more, and when the flag is
\* cleared every thread has ended some time later, unless the flag was set
\* again or the thread waits in recv for bytes that do not come.
C18_FeedStopsAfterDisconnect ==
    /\ [][ \A t \in UiThreads :
             /\ (uth[t].pc = "top" /\ ~connect /\ uth'[t] # uth[t])
                   => (uth'[t].pc = "exited" /\ UNCHANGED uiPub)
             /\ ~Alive(t) /\ uth[t].pc # "unborn" => uth'[t] = uth[t] ]_vars
    /\ (~connect) ~> (connect \/ \A t \in UiThreads : ~Alive(t) \/ WaitsForBytes(t))

\* a feed_back thread that published a frame has left its loop at the test
\* of the cleared flag
C18_Witness ==
    \E t \in UiThreads :
        /\ uth[t].pc = "exited" /\ ~connect
        /\ label.mode = "ROBOT_MODE_ENABLE"

\* C19: whatever the Connect and Disconnect clicks, at most one feed_back
\* thread is alive at any time.
C19_OneFeedThread ==
    \A t, u \in UiThreads : (Alive(t) /\ Alive(u)) => t = u

\* C20: while a gripper write is in progress, between its SetTool485 and its
\* SetHoldRegs, no other user sends a command on the dashboard client: no
\* GetError, GetErrorID or GetForce directly follows a SetTool485 on the wire.
C20_NoCommandInsideWrite ==
    \A i \in 2..Len(wire) :
        wire[i].cmd \in {"GetError", "GetErrorID", "GetForce"}
        => wire[i - 1].cmd # "SetTool485"

\* the snapshot whose five fields are the values decoded from one frame
SnapshotOf(frame) ==
    [MessageSize |-> frame.len, robotMode |-> frame.RobotMode,
     DigitalInputs |-> frame.DigitalInputs,
     DigitalOutputs |-> frame.DigitalOutputs,
     robotCurrentCommandID |-> frame.CurrentCommandId]

\* C21: once GetFeed has finished processing a valid frame, and until it
\* takes the next one, the published snapshot equals that frame field by
\* field: no field keeps a value of an earlier frame or of initialisation.
C21_SnapshotEqualsFrame ==
    (feedPc \in {"unlock", "recv"} /\ feedInfo # NoFrame
        /\ feedInfo.TestValue = Magic)
      => feedData = SnapshotOf(feedInfo)

C21_Witness ==
    /\ feedPc = "recv" /\ frameNo >= 2
    /\ feedInfo = DemoFrame(Magic, ROBOT_MODE_RUNNING, 42)
    /\ feedData = SnapshotOf(feedInfo)

\* thread t takes a step in which a read of the telemetry socket fails (the
\* recv raises) or turns out short (fewer than FRAME_LEN bytes are kept),
\* the connected flag being set and the socket being there
ReadFails(t) ==
    /\ connect /\ client_feed # 0
    /\ uth'[t] # uth[t]
    /\ \/ /\ uth[t].pc \in {"recv", "recv2", "py_recv", "py_recv2"}
          /\ uth'[t].pc \notin {"recv2", "slice", "py_recv2", "py_decode"}
       \/ /\ uth[t].pc \in {"slice", "py_decode"}
          /\ Slice(uth[t].temp).n < FRAME_LEN

\* C22: in every feed_back variant a read error or a short read on the
\* telemetry channel, while the connected flag is set, does not end the
\* feed loop and publishes nothing: the thread pauses or skips and is back at
\* the top of the loop.
C22_ReadFailureKeepsLooping ==
    [][\A t \in UiThreads :
          ReadFails(t) => /\ uth'[t].pc \in {"top", "sleep", "py_top"}
                          /\ UNCHANGED uiPub]_vars

\* C23: when a register write made inside init(), grip() or release() has
\* returned an error result (no session, or an error reply of the
\* transport), the action reports the failure to its caller: it returns an
\* error result or raises, also when the failed write was not its last one.
C23_FailedWriteFailsAction ==
    [][\A t \in GripThreads :
          (gth[t].pc = "w_done" /\ gth'[t].pc = "idle" /\ gth[t].failed)
            => (IsErrorResult(gth'[t].ret) \/ gth'[t].ret = "ValueError")]_vars

\* C24: a grip() write sequence runs to completion once started: a grip()
\* on an open session that has emitted its first register write and is over
\* has emitted all four of its writes, whatever its arguments.
C24_GripRunsToCompletion ==
    \A t \in GripThreads :
        (Returned(t, "grip") /\ Len(WritesOfCall(gth[t].call)) >= 1)
          => Len(WritesOfCall(gth[t].call)) = 4

\* the places of feed_back where the frame of this iteration is validated
\* and decoded
DecodePcs ==
    {"check", "speed", "mode", "di", "do", "joints", "coords", "cache_joints",
     "cache_tcp", "error",
     "py_check", "py_speed", "py_mode", "py_di", "py_do", "py_joints",
     "py_coords", "py_error"}

\* C25: in a feed_back iteration (ui_epick_control.py and ui.py) a first
\* read of more than 1440 bytes is followed by exactly one further read, a
\* first read of at most 1440 bytes by none; what is validated and decoded
\* is the first 1440 bytes of the last read made, so never a byte of a first
\* read that was followed by a second, and never more than 1440 bytes.
C25_ResyncReadsOnceMore ==
    /\ [](\A t \in UiThreads :
            uth[t].pc \in DecodePcs =>
               /\ uth[t].data.n <= FRAME_LEN
               /\ uth[t].data.n = IF uth[t].temp.n > FRAME_LEN THEN FRAME_LEN
                                  ELSE uth[t].temp.n
               /\ uth[t].data.frame = uth[t].temp.frame)
    /\ [][\A t \in UiThreads :
            /\ (uth[t].pc \in {"recv", "py_recv"} /\ uth'[t] # uth[t]
                  /\ recvs' = recvs + 1 /\ uth'[t].temp.n > FRAME_LEN
                  /\ uth'[t].pc \notin {"sleep", "py_raised"})
                 => uth'[t].pc \in {"recv2", "py_recv2"}
            /\ (uth[t].pc \in {"recv", "py_recv"}
                  /\ uth'[t].pc \in {"recv2", "py_recv2"})
                 => (recvs' = recvs + 1 /\ uth'[t].temp.n > FRAME_LEN)
            /\ (uth[t].pc \in {"recv2", "py_recv2"} /\ uth'[t] # uth[t])
                 => (uth'[t].pc \in {"slice", "py_decode", "sleep", "py_raised"}
                     /\ recvs' <= recvs + 1)
            /\ (uth[t].pc \in {"slice", "py_decode"} /\ uth'[t] # uth[t])
                 => (recvs' = recvs /\ uth'[t].temp = uth[t].temp)
          ]_vars

\* a first read of more than 1440 bytes was followed by a second read of
\* more than 1440 bytes, and its first 1440 bytes are being validated
C25_Witness ==
    \E t \in UiThreads :
        /\ uth[t].pc \in {"check", "py_check"}
        /\ uth[t].temp.n > FRAME_LEN /\ uth[t].data.n = FRAME_LEN
        /\ recvs = 2

\* the places of feed_back where an assignment publishes a field
PublishPcs ==
    {"speed", "mode", "di", "do", "joints", "coords", "cache_joints",
     "cache_tcp", "py_speed", "py_mode", "py_di", "py_do", "py_joints",
     "py_coords"}

\* thread t publishes a field of the frame it holds
Publishes(t) ==
    /\ uth[t].pc \in PublishPcs
    /\ uth'[t].pc # uth[t].pc /\ uth'[t].pc \notin {"sleep", "py_raised"}

\* thread u has published a field of the frame it holds and is not yet
\* through with it
HasPublished(u) ==
    uth[u].pc \in (PublishPcs \cup {"error", "py_error"}) \ {"speed", "py_speed"}

\* C26: snapshots are published in frame-arrival order: a frame is never
\* published after a frame that arrived later than it. In GetFeed the frame
\* a published field comes from never gets older; in feed_back no thread
\* publishes a field of its frame when another thread has published one of
\* a frame that was read later.
C26_PublishedInArrivalOrder ==
    [][ /\ fieldSrc'.robotMode >= fieldSrc.robotMode
        /\ fieldSrc'.robotCurrentCommandID >= fieldSrc.robotCurrentCommandID
        /\ \A t, u \in UiThreads :
              (Publishes(t) /\ HasPublished(u)) => uth[u].no <= uth[t].no
      ]_vars

\* thread t holds a whole frame that passes the magic-number test and whose
\* RobotMode is 9
HoldsErrorFrame(t) ==
    /\ uth[t].data.n = FRAME_LEN
    /\ uth[t].data.frame.TestValue = Magic
    /\ uth[t].data.frame.RobotMode = ROBOT_MODE_ERROR

\* the step sends the GetError of display_error_info
FetchesErrorDetail ==
    /\ Len(wire') > Len(wire)
    /\ wire'[Len(wire) + 1].op = "display_error_info"

\* C27: feed_back fetches the error detail for a frame if and only if the
\* frame passed the magic-number test and its RobotMode is 9: the fetch is
\* made only by a thread at line 992 that holds such a frame; a thread that
\* holds such a frame goes from the magic test through every assignment to
\* line 992 and there makes the fetch; a frame with another magic value
\* never gets there, whatever its RobotMode.
C27_ErrorFetchIffErrorFrame ==
    [][ /\ FetchesErrorDetail =>
              \E t \in UiThreads : /\ uth[t].pc \in {"error", "py_error"}
                                   /\ uth'[t] # uth[t]
                                   /\ HoldsErrorFrame(t)
        /\ \A t \in UiThreads :
              (uth'[t] # uth[t] /\ uth[t].pc \in DecodePcs /\ HoldsErrorFrame(t))
                => IF uth[t].pc \in {"error", "py_error"}
                   THEN client_dash # 0 => FetchesErrorDetail
                   ELSE uth'[t].pc \in DecodePcs
      ]_vars

\* a frame with the magic number and RobotMode 9 was decoded and the error
\* detail was fetched and shown
C27_Witness ==
    \E t \in UiThreads :
        /\ uth[t].pc = "top" /\ HoldsErrorFrame(t)
        /\ text_err = 1
        /\ \E i \in 1..Len(wire) : wire[i].cmd = "GetError"

\* C28: when the reply to RunPoint's motion command is the
\* wrong-control-mode reply or holds fewer than two integers, RunPoint hands
\* a failure outcome to its caller: it neither enters the polling loop nor
\* ends in an unhandled exception while taking the command id.
C28_ShortReplyIsTypedFailure ==
    (runPc # "idle" /\ Len(printed) < 2) =>
        runPc \notin {"raised", "poll", "poll_id", "sleep", "done"}

\* C29: GetFeed releases the snapshot lock at the end of every iteration,
\* also when the read gave no frame or an invalid one, and it loops only
\* until it is told to stop: once started it comes to an end (the request to
\* stop being made at some time).
C29_FeedLoopStops ==
    /\ [](feedPc = "recv" => globalLock = None)
    /\ [](feedStarted => <>(feedPc = "exited"))

\* the MovL calls of the run, in order
MovLCalls == SelectSeq(rpCalls, LAMBDA c : c.cmd = "MovL")

\* C30: the blend parameters of every MovL of a replay are mutually
\* exclusive, the radius first: r is passed iff the configured blend radius
\* is > 0, cp is passed iff the radius is not > 0 and the configured ratio
\* is > 0, never both, and every pose of the run gets the same parameters.
C30_BlendRadiusFirst ==
    \A k \in 1..Len(MovLCalls) :
        LET p == MovLCalls[k].params
        IN  /\ (p.r # 0) <=> (BLEND_R_MM > 0)
            /\ (p.cp # 0) <=> (~(BLEND_R_MM > 0) /\ CP_RATIO > 0)
            /\ ~(p.r # 0 /\ p.cp # 0)
            /\ p = MovLCalls[1].params

\* the pose of the last poll is within both tolerances of the target
LastPollMatches ==
    /\ wt.cur # NoPose
    /\ PosErrSq(wt.cur, WaitTarget) <= wt.pos_tol_mm * wt.pos_tol_mm
    /\ Abs(wt.cur[4] - WaitTarget[4]) <= wt.rot_tol_deg
    /\ Abs(wt.cur[5] - WaitTarget[5]) <= wt.rot_tol_deg
    /\ Abs(wt.cur[6] - WaitTarget[6]) <= wt.rot_tol_deg

\* C31: _wait_until_near_pose returns only at a poll whose parsed pose is
\* within pos_tol_mm and rot_tol_deg of the target; it raises TimeoutError
\* only after a poll that did not match, made when the deadline had passed;
\* it ends only after at least one poll; a poll that matches returns even
\* when the deadline has passed; a reply that cannot be parsed is a poll
\* that did not match (the deadline test follows, nothing is raised for
\* it); and every call ends, by returning or by TimeoutError.
C31_WaitReturnsNearOrTimesOut ==
    /\ [](wt.pc = "returned" => LastPollMatches)
    /\ [](wt.pc = "TimeoutError"
            => ~LastPollMatches /\ wt.now >= wt.timeout_s)
    /\ [](wt.pc \in {"returned", "TimeoutError"} => wt.polls >= 1)
    /\ [][(wt.pc = "compare" /\ LastPollMatches) => wt'.pc = "returned"]_vars
    /\ [][(wt.pc = "compare" /\ wt.cur = NoPose) => wt'.pc = "deadline"]_vars
    /\ <>(wt.pc \in {"returned", "TimeoutError"})

\* a reply that could not be parsed was polled, the wait went on, and a
\* later poll that matched returned although the deadline had passed
C31_Witness ==
    /\ wt.pc = "returned" /\ wt.polls >= 2
    /\ wt.timeout_s > 0 /\ wt.now >= wt.timeout_s
    /\ Len(wt.nums) = 8

\* the step is a call of close_modbus_channel by thread t
ClosesChannel(t) ==
    /\ gripCalls' = gripCalls + 1
    /\ gth'[t].call = gripCalls' /\ gth'[t].op = "close_modbus_channel"

\* the step is a call of create_modbus_channel by thread t
CreatesChannel(t) ==
    /\ gripCalls' = gripCalls + 1
    /\ gth'[t].call = gripCalls' /\ gth'[t].op = "create_modbus_channel"

\* C32: close_modbus_channel called with a session sends exactly one
\* ModbusClose, for the stored index, and leaves ModbusIndex None; called
\* without a session it sends nothing and returns "Modbus Not Connected";
\* ModbusIndex stays None until a create whose reply yields an index, and a
\* write_by_485 that makes its test of line 82 while ModbusIndex is None
\* returns the error text and sends nothing.
C32_CloseTearsDown ==
    [][ /\ \A t \in GripThreads :
              ClosesChannel(t) =>
                 IF ModbusIndex # <<>>
                 THEN /\ Len(wire') = Len(wire) + 1
                      /\ SubSeq(wire', 1, Len(wire)) = wire
                      /\ wire'[Len(wire')].cmd = "ModbusClose"
                      /\ wire'[Len(wire')].index = ModbusIndex
                      /\ ModbusIndex' = <<>>
                 ELSE /\ wire' = wire
                      /\ gth'[t].ret = "Modbus Not Connected"
                      /\ ModbusIndex' = <<>>
        /\ (ModbusIndex = <<>> /\ ModbusIndex' # <<>>)
              => \E t \in GripThreads :
                    /\ CreatesChannel(t)
                    /\ gth'[t].ret[2] # 0 - 1
                    /\ ModbusIndex' = <<gth'[t].ret[2]>>
        /\ \A t \in GripThreads :
              (ModbusIndex = <<>> /\ gth[t].pc = "w_check" /\ gth'[t] # gth[t])
                => /\ gth'[t].pc = "w_done"
                   /\ IsErrorResult(gth'[t].ret)
                   /\ Len(wire') = Len(wire) ]_vars

\* a session was closed with one ModbusClose for its index, and the first
\* write of an init() called after that has returned the error text
C32_Witness ==
    /\ gth[2].op = "close_modbus_channel" /\ gth[2].call = 1
    /\ gth[1].op = "init" /\ gth[1].call = 2 /\ gth[1].pc = "w_done"
    /\ gth[1].ret = "Error: No Modbus Index"
    /\ Len(wire) = 1 /\ wire[1].cmd = "ModbusClose" /\ wire[1].index = <<0>>
    /\ ModbusIndex = <<>>

\* C33: the caller can tell the outcomes of parseResultId apart: a reply
\* without the "Not Tcp" marker is never parsed into [1], the result of a
\* wrong-control-mode reply, and a reply that holds an integer is never
\* parsed into [2], the result of a reply that holds none.
C33_OutcomesDistinguishable ==
    runPc # "idle" =>
        /\ ~HasMarker(recvmovemess) => printed # <<1>>
        /\ HasInteger(recvmovemess) => printed # <<2>>

\* C34: RunPoint's completion wait does not succeed on telemetry that was
\* never published: when the wait has returned, GetFeed has published a
\* valid frame (it has written all its fields, the command id last),
\* whatever command id was parsed from the reply, -1 included.
C34_NoSuccessBeforeFirstFrame ==
    runPc = "done" => fieldSrc.robotCurrentCommandID >= 1

\* RunPoint is in its completion wait, or has left it
InWait == runPc \in {"poll", "poll_id", "sleep", "done"}

\* the frame GetFeed last received is valid and reports robotMode 5 with the
\* command id RunPoint waits for
AwaitedFrame ==
    /\ InWait
    /\ feedInfo # NoFrame /\ feedInfo.TestValue = Magic
    /\ feedInfo.RobotMode = ROBOT_MODE_ENABLE
    /\ feedInfo.CurrentCommandId = currentCommandID

\* C35: with the feed thread and the polling thread scheduled fairly, if
\* from some time on every frame GetFeed receives is valid and reports
\* robotMode 5 with the awaited command id, RunPoint's wait returns; and the
\* reader never keeps the writer out: the lock is free whenever GetFeed
\* asks for it, and only GetFeed ever holds it.
C35_WaitReturnsOnSteadyFrames ==
    /\ (<>[]AwaitedFrame) => <>(runPc = "done")
    /\ [](feedPc = "lock" => globalLock = None)
    /\ [](globalLock \in {None, "GetFeed"})

\* the wait for command 42 has returned on a second frame, both fields read
\* from it, after a first frame that reported another state
C35_Witness ==
    /\ runPc = "done" /\ currentCommandID = 42
    /\ AwaitedFrame /\ frameNo = 2
    /\ rdSrc = [mode |-> 2, id |-> 2]

\* C36: create_modbus_channel establishes a session only on success: after
\* a create whose reply reports an error code other than 0, or holds no
\* session index, ModbusIndex is None.
C36_CreateOnlyOnSuccess ==
    [][ \A t \in GripThreads :
          (CreatesChannel(t)
             /\ (gth'[t].ret[1] # 0 \/ gth'[t].ret[2] = 0 - 1))
            => ModbusIndex' = <<>> ]_vars

\* C37: every SetHoldRegs that write_by_485 sends carries the index of a
\* session that is open when it is sent: the step that sends it finds
\* ModbusIndex set and sends that index, never None.
C37_WriteCarriesOpenIndex ==
    [][ (Len(wire') > Len(wire) /\ wire'[Len(wire')].cmd = "SetHoldRegs")
          => (ModbusIndex # <<>> /\ wire'[Len(wire')].index = ModbusIndex) ]_vars

\* record_loop thread t was started and has not ended
RecAlive(t) == rec.th[t] \in {"test", "getforce", "write"}

\* C38: whatever the Record and Connect/Disconnect clicks, at most one
\* record_loop thread is alive at any time; a record_loop writes rows only
\* to the file of its own recording while that file is open (never to a
\* closed file, never to the file of a later recording); and when a
\* Disconnect closes the control and telemetry clients the recording has
\* been stopped and its file closed.
C38_OneRecorderOwnFile ==
    /\ [](\A t, u \in RecThreads : (RecAlive(t) /\ RecAlive(u)) => t = u)
    /\ [][ rec'.rows # rec.rows
             => \E t \in RecThreads : /\ rec'.rows = rec.rows \cup {<<t, t>>}
                                      /\ rec.writer = t ]_vars
    /\ [][ (client_dash # 0 /\ client_dash' = 0)
             => (~rec.running /\ rec.writer = 0) ]_vars

\* the EnableRobot reply acknowledges the command with status 0: it has no
\* "Not Tcp" marker and its first integer is 0
EnableAcknowledged(reply) ==
    /\ ~HasMarker(reply) /\ HasInteger(reply)
    /\ IntegersOf(reply)[1] = 0

\* C39: start() starts the GetFeed thread only after EnableRobot was
\* acknowledged with status 0: when the reply is a wrong-control-mode
\* reply, holds no integer or has a first integer other than 0, start()
\* returns without starting GetFeed and without entering the status loop;
\* GetFeed runs only while start() is in its status loop.
C39_FeedOnlyAfterEnableAck ==
    /\ [][ (startPc = "enable_sent" /\ startPc' # startPc)
             => IF EnableAcknowledged(enableRecv)
                THEN startPc' = "status_loop" /\ feedStarted'
                ELSE startPc' = "returned" /\ ~feedStarted' ]_vars
    /\ [](feedStarted => startPc = "status_loop")

\* start() has returned after its one command without starting GetFeed,
\* and the caller has gone on to RunPoint
C39_Witness ==
    /\ startPc = "returned" /\ ~feedStarted
    /\ dashCalls[1] = "EnableRobot" /\ Len(dashCalls) = 2
    /\ feedPc = "recv" /\ frameNo = 0

=============================================================================
